---- MODULE Spec2Model ----
(***************************************************************************)
(* The versioned document store of text-hosting (DocumentStore, storage.ts *)
(* = src/unnamed/part_002) and the HTTP handlers that call it (router.ts   *)
(* = src/unnamed/part_004), over a key-value backing store without         *)
(* transactions.                                                           *)
(*                                                                         *)
(* A JavaScript string is a sequence of characters; string concatenation   *)
(* is \o.  Identifiers and key prefixes are single opaque characters of    *)
(* that sequence ("doc:", "d1"); owner tokens are spelled out character by *)
(* character so that trim() is computed; document content is a sequence of *)
(* code points so that its UTF-8 size is computed.  An optional value      *)
(* (T | undefined | null) is None or Some(v).                              *)
(***************************************************************************)
EXTENDS Integers, Sequences, FiniteSets, TLC

VARIABLES
    kv,     \* the backing store: key -> value, for the keys present
    pr,     \* per request handler: the call in progress and its locals
    res,    \* what the call that has just finished returned or threw, until
            \* the caller has taken it
    hist,   \* the create/update/delete calls that returned successfully
    nDoc,   \* nanoid(12) calls so far (document ids)
    nVer,   \* nanoid(10) calls so far (version ids)
    nKey,   \* nanoid(16) calls so far (raw-access keys)
    nDel    \* deleteDocument calls so far that passed the ownership rule

vars == <<kv, pr, res, hist, nDoc, nVer, nKey, nDel>>

---------------------------------------------------------------------------
(* Bounds of the model *)

NumProcs == 2
MaxDocs == 2
MaxVersions == 3
MaxDeletes == 1
MaxClock == 1

(* DocumentStore.maxSize, set by the constructor *)
maxSize == 3

Procs == 1..NumProcs
Times == 0..MaxClock

---------------------------------------------------------------------------
(* Optional values and strings *)

None == <<>>
Some(x) == <<x>>

IsSpace(c) == c \in {" ", "\t"}

RECURSIVE TrimStart(_)
TrimStart(s) == IF s # <<>> /\ IsSpace(Head(s)) THEN TrimStart(Tail(s)) ELSE s

RECURSIVE TrimEnd(_)
TrimEnd(s) ==
    IF s # <<>> /\ IsSpace(s[Len(s)]) THEN TrimEnd(SubSeq(s, 1, Len(s) - 1)) ELSE s

Trim(s) == TrimEnd(TrimStart(s))

(* Boolean(x) of an optional string: undefined and "" are falsy *)
Truthy(opt) == opt # None /\ opt[1] # <<>>

(* the owner token kept as given unless it is undefined or "" *)
NormalizeTokenUntrimmed(opt) == IF Truthy(opt) THEN opt ELSE None

(* input.ownerToken?.trim() ? input.ownerToken.trim() : undefined *)
NormalizeToken(opt) ==
    IF opt # None /\ Trim(opt[1]) # <<>> THEN Some(Trim(opt[1])) ELSE None

(* bytes TextEncoder writes for one code point *)
Utf8Len(cp) ==
    IF cp < 128 THEN 1 ELSE IF cp < 2048 THEN 2 ELSE IF cp < 65536 THEN 3 ELSE 4

(* new TextEncoder().encode(content).byteLength *)
RECURSIVE ByteLength(_)
ByteLength(content) ==
    IF content = <<>> THEN 0 ELSE Utf8Len(Head(content)) + ByteLength(Tail(content))

(* hex SHA-256 of the content's bytes: a function of the content without
   collisions *)
hashContent(content) == [sha256 |-> content]

(* nanoid(n): the k-th call of a size returns a string never returned before *)
Nanoid(kind, k) == <<kind \o ToString(k)>>

---------------------------------------------------------------------------
(* Keys of the backing store *)

DOCUMENT_KEY_PREFIX == "doc:"
VERSION_KEY_PREFIX == "version:"
PUBLIC_INDEX_KEY == <<"documents:public:index">>
OWNER_INDEX_PREFIX == "documents:owner:"

ownerIndexKey(ownerToken) == <<OWNER_INDEX_PREFIX>> \o ownerToken
DocKey(id) == <<DOCUMENT_KEY_PREFIX>> \o id
VersionKey(id, versionId) == <<VERSION_KEY_PREFIX>> \o id \o <<":">> \o versionId

(* KVNamespace.get / put / delete on a store value *)
KvGet(store, key) == IF key \in DOMAIN store THEN Some(store[key]) ELSE None
KvPut(store, key, value) == (key :> value) @@ store
KvDelete(store, key) == [k \in DOMAIN store \ {key} |-> store[k]]

(* getRecord: the metadata of the record, or None *)
getRecord(store, id) == KvGet(store, DocKey(id))

(* getIndex: the stored array, [] when the key is absent *)
getIndex(store, key) ==
    LET value == KvGet(store, key) IN IF value = None THEN <<>> ELSE value[1]

Filter(index, id) == SelectSeq(index, LAMBDA existing : existing # id)

(* pushToIndex without the filter: the id is put in front of the index as
   read *)
PushValueUnfiltered(index, id) == <<id>> \o index

(* the value pushToIndex writes, given the index it read *)
PushValue(index, id) == <<id>> \o Filter(index, id)

(* the value removeFromIndex writes, given the index it read *)
RemoveValue(index, id) == Filter(index, id)

(* updatePublicIndex pushing the id whether or not the document is public *)
PublicIndexValueAlwaysPushed(index, id, isPublic) == PushValue(index, id)

(* updatePublicIndex: what it writes to the public index *)
PublicIndexValue(index, id, isPublic) ==
    IF isPublic THEN PushValue(index, id) ELSE RemoveValue(index, id)

---------------------------------------------------------------------------
(* Records and views *)

VersionMetadata(versionId, now, content) ==
    [versionId |-> versionId, createdAt |-> now,
     size |-> ByteLength(content), hash |-> hashContent(content)]

(* toView spreading the whole metadata: the view keeps ownerToken *)
toViewSpreadingAll(metadata, viewerToken) ==
    LET hasOwner == Truthy(metadata.ownerToken)
        isOwner == IF hasOwner THEN viewerToken = metadata.ownerToken ELSE FALSE
    IN [id |-> metadata.id, title |-> metadata.title,
        createdAt |-> metadata.createdAt, updatedAt |-> metadata.updatedAt,
        size |-> metadata.size, versions |-> metadata.versions,
        ownerToken |-> metadata.ownerToken,
        isOwner |-> isOwner, isPrivate |-> hasOwner,
        rawAccessKey |-> IF hasOwner THEN metadata.rawAccessKey ELSE None]

(* toView judging isOwner by equality alone: a viewer without token is the
   owner of a document without owner *)
toViewOwnerByEquality(metadata, viewerToken) ==
    LET hasOwner == Truthy(metadata.ownerToken)
        isOwner == viewerToken = metadata.ownerToken
    IN [id |-> metadata.id, title |-> metadata.title,
        createdAt |-> metadata.createdAt, updatedAt |-> metadata.updatedAt,
        size |-> metadata.size, versions |-> metadata.versions,
        isOwner |-> isOwner, isPrivate |-> hasOwner,
        rawAccessKey |-> IF hasOwner THEN metadata.rawAccessKey ELSE None]

(* toView: the metadata without ownerToken, with isOwner and isPrivate *)
toView(metadata, viewerToken) ==
    LET hasOwner == Truthy(metadata.ownerToken)
        isOwner == IF hasOwner THEN viewerToken = metadata.ownerToken ELSE FALSE
    IN [id |-> metadata.id, title |-> metadata.title,
        createdAt |-> metadata.createdAt, updatedAt |-> metadata.updatedAt,
        size |-> metadata.size, versions |-> metadata.versions,
        isOwner |-> isOwner, isPrivate |-> hasOwner,
        rawAccessKey |-> IF hasOwner THEN metadata.rawAccessKey ELSE None]

(* the ownership rule without its second branch: a token supplied for a
   document without owner is let through *)
ForbiddenOwnedOnly(metadata, tokenArg) ==
    LET existingOwner == NormalizeToken(metadata.ownerToken)
        ownerToken == NormalizeToken(tokenArg)
    IN existingOwner # None /\ existingOwner # ownerToken

(* the ownership rule never rejecting a call *)
ForbiddenNever(metadata, tokenArg) == FALSE

(* the ownership rule of updateDocument and deleteDocument: TRUE when the
   call is rejected FORBIDDEN *)
Forbidden(metadata, tokenArg) ==
    LET existingOwner == NormalizeToken(metadata.ownerToken)
        ownerToken == NormalizeToken(tokenArg)
    IN IF existingOwner # None THEN existingOwner # ownerToken
       ELSE ownerToken # None

(* a missing record reported as a failure of the ownership rule *)
NotFoundAsForbidden == "FORBIDDEN"

(* updateDocument, deleteDocument: if (!record) throw new Error("NOT_FOUND") *)
NotFoundError == "NOT_FOUND"

(* assertSize measuring content.length instead of the encoded bytes *)
TooLargeByChars(content) == Len(content) > maxSize

(* assertSize: TRUE when it throws FILE_TOO_LARGE *)
TooLarge(content) == ByteLength(content) > maxSize

(* createDocument giving every document a raw-access key *)
CreateRawKeyAlways(ownerToken, key) == Some(key)

(* createDocument: rawAccessKey: ownerToken ? nanoid(16) : undefined *)
CreateRawKey(ownerToken, key) == IF Truthy(ownerToken) THEN Some(key) ELSE None

(* updateDocument pushing the new version at the end *)
AppendVersion(versions, versionMetadata) == versions \o <<versionMetadata>>

(* updateDocument: versions = [versionMetadata, ...record.metadata.versions] *)
PrependVersion(versions, versionMetadata) == <<versionMetadata>> \o versions

(* updateDocument taking the time of the update as the time of creation
   too *)
UpdatedMetadataNewCreatedAt(metadata, now, size, versionMetadata) ==
    [metadata EXCEPT !.createdAt = now,
                     !.updatedAt = now,
                     !.size = size,
                     !.versions = PrependVersion(@, versionMetadata)]

(* updateDocument leaving size and updatedAt of the record as they were *)
UpdatedMetadataOldSize(metadata, now, size, versionMetadata) ==
    [metadata EXCEPT !.versions = PrependVersion(@, versionMetadata)]

(* updateDocument: the three assignments to record.metadata *)
UpdatedMetadata(metadata, now, size, versionMetadata) ==
    [metadata EXCEPT !.updatedAt = now,
                     !.size = size,
                     !.versions = PrependVersion(@, versionMetadata)]

(* updateDocument: if (existingOwner) rawAccessKey = nanoid(16) *)
RotateRawKey(existingOwner, rawAccessKey, key) ==
    IF existingOwner # None THEN Some(key) ELSE rawAccessKey

(* deleteDocument deleting only the blob of the latest version *)
LatestVersionOnly(versions) == {versions[1].versionId}

(* deleteDocument: one deleteVersion task per listed version *)
VersionsToDelete(versions) == {versions[i].versionId : i \in 1..Len(versions)}

---------------------------------------------------------------------------
(* The read operations of DocumentStore, as functions of the store *)

(* getDocument enforcing access itself: no view of a private document for
   a viewer who is not its owner *)
getDocumentOwnerOnly(store, id, viewerToken) ==
    LET record == KvGet(store, DocKey(id))
    IN IF record = None THEN None
       ELSE IF Truthy(record[1].ownerToken) /\ record[1].ownerToken # viewerToken
       THEN None
       ELSE Some(toView(record[1], viewerToken))

(* getDocument: the view, or None when there is no record *)
getDocument(store, id, viewerToken) ==
    LET record == getRecord(store, id)
    IN IF record = None THEN None ELSE Some(toView(record[1], viewerToken))

(* versions.find((v) => v.versionId === versionId) *)
FindVersion(versions, versionId) ==
    LET hits == SelectSeq(versions, LAMBDA v : v.versionId = versionId)
    IN IF hits = <<>> THEN None ELSE Some(hits[1])

(* getVersion without the cross-check: a stored blob is returned with the
   entry of the latest version when its own is not listed *)
getVersionOfAnyBlob(store, id, versionId) ==
    LET content == KvGet(store, VersionKey(id, versionId))
        record == KvGet(store, DocKey(id))
    IN IF ~Truthy(content) THEN None
       ELSE IF record = None THEN None
       ELSE LET versionMetadata == FindVersion(record[1].versions, versionId)
            IN Some([metadata |-> IF versionMetadata = None
                                  THEN record[1].versions[1]
                                  ELSE versionMetadata[1],
                     content |-> content[1]])

(* getVersion: the blob, then the record, then the listed entry *)
getVersion(store, id, versionId) ==
    LET content == KvGet(store, VersionKey(id, versionId))
        record == getRecord(store, id)
    IN IF ~Truthy(content) THEN None
       ELSE IF record = None THEN None
       ELSE LET versionMetadata == FindVersion(record[1].versions, versionId)
            IN IF versionMetadata = None THEN None
               ELSE Some([metadata |-> versionMetadata[1], content |-> content[1]])

(* index.indexOf(cursor): 0-based, -1 when absent *)
RECURSIVE IndexOfFrom(_, _, _)
IndexOfFrom(index, x, i) ==
    IF i > Len(index) THEN -1
    ELSE IF index[i] = x THEN i - 1
    ELSE IndexOfFrom(index, x, i + 1)

IndexOf(index, x) == IndexOfFrom(index, x, 1)

Max(a, b) == IF a >= b THEN a ELSE b
Min(a, b) == IF a <= b THEN a ELSE b

(* sliceIndex handing out the id after the slice as the cursor *)
sliceIndexCursorAfter(index, limit, cursor) ==
    LET start == IF Truthy(cursor) THEN Max(IndexOf(index, cursor[1]) + 1, 0) ELSE 0
    IN [slice |-> SubSeq(index, start + 1, Min(start + limit, Len(index))),
        nextCursor |-> IF start + limit < Len(index)
                       THEN Some(index[start + limit + 1]) ELSE None]

(* sliceIndex starting the slice at the cursor instead of after it *)
sliceIndexFromCursor(index, limit, cursor) ==
    LET start == IF Truthy(cursor) THEN Max(IndexOf(index, cursor[1]), 0) ELSE 0
    IN [slice |-> SubSeq(index, start + 1, Min(start + limit, Len(index))),
        nextCursor |-> IF start + limit < Len(index)
                       THEN Some(index[start + limit]) ELSE None]

(* sliceIndex *)
sliceIndex(index, limit, cursor) ==
    LET start == IF Truthy(cursor) THEN Max(IndexOf(index, cursor[1]) + 1, 0) ELSE 0
    IN [slice |-> SubSeq(index, start + 1, Min(start + limit, Len(index))),
        nextCursor |-> IF start + limit < Len(index)
                       THEN Some(index[start + limit]) ELSE None]

(* loadViews ending the loop at the first id without record *)
RECURSIVE loadViewsUntilMissing(_, _, _)
loadViewsUntilMissing(store, ids, viewerToken) ==
    IF ids = <<>> THEN <<>>
    ELSE LET record == KvGet(store, DocKey(Head(ids)))
         IN IF record = None THEN <<>>
            ELSE LET rest == loadViewsUntilMissing(store, Tail(ids), viewerToken)
                 IN IF Truthy(record[1].ownerToken)
                       /\ record[1].ownerToken # viewerToken THEN rest
                    ELSE <<toView(record[1], viewerToken)>> \o rest

(* loadViews without the comparison of owner and viewer *)
RECURSIVE loadViewsOfAnyOwner(_, _, _)
loadViewsOfAnyOwner(store, ids, viewerToken) ==
    IF ids = <<>> THEN <<>>
    ELSE LET record == KvGet(store, DocKey(Head(ids)))
             rest == loadViewsOfAnyOwner(store, Tail(ids), viewerToken)
         IN IF record = None THEN rest
            ELSE <<toView(record[1], viewerToken)>> \o rest

(* loadViews: the views of the ids that have a record the viewer may see *)
RECURSIVE loadViews(_, _, _)
loadViews(store, ids, viewerToken) ==
    IF ids = <<>> THEN <<>>
    ELSE LET record == getRecord(store, Head(ids))
             rest == loadViews(store, Tail(ids), viewerToken)
         IN IF record = None THEN rest
            ELSE IF Truthy(record[1].ownerToken)
                    /\ record[1].ownerToken # viewerToken THEN rest
            ELSE <<toView(record[1], viewerToken)>> \o rest

listPublicDocuments(store, viewerToken, limit, cursor) ==
    LET page == sliceIndex(getIndex(store, PUBLIC_INDEX_KEY), limit, cursor)
    IN [documents |-> loadViews(store, page.slice, viewerToken),
        cursor |-> page.nextCursor]

listOwnerDocuments(store, ownerToken, limit, cursor) ==
    IF ~Truthy(ownerToken) THEN [documents |-> <<>>, cursor |-> None]
    ELSE LET page == sliceIndex(getIndex(store, ownerIndexKey(ownerToken[1])),
                                limit, cursor)
         IN [documents |-> loadViews(store, page.slice, ownerToken),
             cursor |-> page.nextCursor]

---------------------------------------------------------------------------
(* The HTTP handlers, as functions of the store *)

(* GET /api/documents/:id/raw *)
RawResponse(store, id, versionIdArg, rawKey, viewerToken) ==
    LET document == getDocument(store, id, viewerToken)
    IN IF document = None THEN [status |-> "NOT_FOUND", body |-> None]
       ELSE IF ~document[1].isOwner /\ document[1].isPrivate
               /\ (\/ ~Truthy(rawKey)
                   \/ ~Truthy(document[1].rawAccessKey)
                   \/ rawKey # document[1].rawAccessKey)
       THEN [status |-> "FORBIDDEN", body |-> None]
       ELSE LET version == IF Truthy(versionIdArg)
                           THEN FindVersion(document[1].versions, versionIdArg[1])
                           ELSE Some(document[1].versions[1])
            IN IF version = None THEN [status |-> "NOT_FOUND", body |-> None]
               ELSE LET fullVersion == getVersion(store, id, version[1].versionId)
                    IN IF fullVersion = None
                       THEN [status |-> "NOT_FOUND", body |-> None]
                       ELSE [status |-> "OK", body |-> Some(fullVersion[1].content)]

---------------------------------------------------------------------------
(* Inputs *)

(* content of UTF-8 size 0, of size maxSize and of size maxSize + 1: "a"
   (1 byte) repeated, with a last character of 2 bytes, so that the number
   of characters is below the number of bytes *)
RECURSIVE Ascii(_)
Ascii(n) == IF n <= 0 THEN <<>> ELSE <<97>> \o Ascii(n - 1)

AtLimit == Ascii(maxSize - 2) \o <<233>>
OverLimit == Ascii(maxSize - 1) \o <<233>>

TokenA == <<"A">>
TokenB == <<"B">>

DocIds == {Nanoid("d", k) : k \in 1..MaxDocs}
VersionIds == {Nanoid("v", k) : k \in 1..MaxVersions}
RawKeys == {Nanoid("k", k) : k \in 1..MaxVersions}

(* what the calls of a specification draw their arguments from *)
SeqInputs ==
    [titles |-> {<<"a.md">>},
     contents |-> {<<>>, AtLimit, OverLimit},
     tokens |-> {None, Some(<<>>), Some(<<" ">>), Some(TokenA),
                 Some(<<" ">> \o TokenA), Some(TokenB)},
     times |-> Times,
     ids |-> DocIds]

(* the x-user-token header of a request *)
HeaderTokens == {None, Some(<<>>), Some(TokenA), Some(TokenB)}

Limits == {1, 2}

ConcInputs ==
    [titles |-> {<<"a.md">>},
     contents |-> {AtLimit},
     tokens |-> {None, Some(TokenA)},
     times |-> {0},
     ids |-> DocIds]


---------------------------------------------------------------------------
(* Request handlers *)

Idle ==
    [op |-> "idle", id |-> <<>>, tokenArg |-> None, content |-> <<>>,
     seen |-> None, rec |-> None, ver |-> None, owner |-> None,
     tasks |-> {}, dels |-> {}, pubIdx |-> None, ownIdx |-> None]

NoResult ==
    [op |-> "none", status |-> "NONE", id |-> <<>>, tokenArg |-> None,
     content |-> <<>>, seen |-> None, view |-> None, version |-> None]

Init ==
    /\ kv = <<>>
    /\ pr = [p \in Procs |-> Idle]
    /\ res = NoResult
    /\ hist = {}
    /\ nDoc = 0
    /\ nVer = 0
    /\ nKey = 0
    /\ nDel = 0

(* a request is taken by the first handler that is free, once the caller
   has taken the result of the call before *)
Free(p) ==
    /\ res = NoResult
    /\ pr[p].op = "idle"
    /\ \A q \in 1..(p - 1) : pr[q].op # "idle"

(* a call that throws before any access to the backing store *)
Fail(p, op, status, id, tokenArg, content, seen) ==
    /\ Free(p)
    /\ res' = [op |-> op, status |-> status, id |-> id, tokenArg |-> tokenArg,
               content |-> content, seen |-> seen, view |-> None,
               version |-> None]
    /\ UNCHANGED <<kv, pr, hist, nDoc, nVer, nKey, nDel>>

(* createDocument up to Promise.all: everything it computes before its
   first access to the backing store *)
CreateCall(p, title, content, tokenArg, now) ==
    /\ Free(p)
    /\ IF TooLarge(content)
       THEN Fail(p, "create", "FILE_TOO_LARGE", <<>>, tokenArg, content, None)
       ELSE /\ nDoc < MaxDocs
            /\ nVer < MaxVersions
            /\ LET ownerToken == NormalizeToken(tokenArg)
                   id == Nanoid("d", nDoc + 1)
                   versionId == Nanoid("v", nVer + 1)
                   versionMetadata == VersionMetadata(versionId, now, content)
                   stored ==
                       [id |-> id, title |-> title, createdAt |-> now,
                        updatedAt |-> now, size |-> ByteLength(content),
                        versions |-> <<versionMetadata>>,
                        ownerToken |-> ownerToken,
                        rawAccessKey |->
                            CreateRawKey(ownerToken, Nanoid("k", nKey + 1))]
               IN /\ pr' = [pr EXCEPT ![p] =
                              [op |-> "create", id |-> id, tokenArg |-> tokenArg,
                               content |-> content, seen |-> None,
                               rec |-> Some(stored), ver |-> Some(versionMetadata),
                               owner |-> ownerToken,
                               tasks |-> {"putRecord", "putVersion", "pubGet"}
                                         \cup (IF Truthy(ownerToken) THEN {"ownGet"}
                                               ELSE {}),
                               dels |-> {}, pubIdx |-> None, ownIdx |-> None]]
                  /\ nDoc' = nDoc + 1
                  /\ nVer' = nVer + 1
                  /\ nKey' = IF Truthy(ownerToken) THEN nKey + 1 ELSE nKey
                  /\ UNCHANGED res
                  /\ UNCHANGED <<kv, hist, nDel>>

(* updateDocument up to Promise.all: assertSize, getRecord, the ownership
   rule, the new version and the changed record *)
UpdateCall(p, id, content, tokenArg, now) ==
    /\ Free(p)
    /\ LET record == getRecord(kv, id)
       IN IF TooLarge(content)
          THEN Fail(p, "update", "FILE_TOO_LARGE", id, tokenArg, content, None)
          ELSE IF record = None
          THEN Fail(p, "update", NotFoundError, id, tokenArg, content, None)
          ELSE IF Forbidden(record[1], tokenArg)
          THEN Fail(p, "update", "FORBIDDEN", id, tokenArg, content, record)
          ELSE /\ nVer < MaxVersions
               /\ LET existingOwner == NormalizeToken(record[1].ownerToken)
                      versionId == Nanoid("v", nVer + 1)
                      versionMetadata == VersionMetadata(versionId, now, content)
                      metadata ==
                          [UpdatedMetadata(record[1], now, ByteLength(content),
                                           versionMetadata) EXCEPT
                             !.rawAccessKey =
                                 RotateRawKey(existingOwner, @,
                                              Nanoid("k", nKey + 1))]
                  IN /\ pr' = [pr EXCEPT ![p] =
                                 [op |-> "update", id |-> id, tokenArg |-> tokenArg,
                                  content |-> content, seen |-> record,
                                  rec |-> Some(metadata),
                                  ver |-> Some(versionMetadata),
                                  owner |-> existingOwner,
                                  tasks |-> {"putRecord", "putVersion", "pubGet"}
                                            \cup (IF existingOwner # None
                                                  THEN {"ownGet"} ELSE {}),
                                  dels |-> {}, pubIdx |-> None, ownIdx |-> None]]
                     /\ nVer' = nVer + 1
                     /\ nKey' = IF existingOwner # None THEN nKey + 1 ELSE nKey
                     /\ UNCHANGED res
                     /\ UNCHANGED <<kv, hist, nDoc, nDel>>

(* deleteDocument up to Promise.all: getRecord, the ownership rule and the
   list of tasks *)
DeleteCall(p, id, tokenArg) ==
    /\ Free(p)
    /\ LET record == getRecord(kv, id)
       IN IF record = None
          THEN Fail(p, "delete", NotFoundError, id, tokenArg, <<>>, None)
          ELSE IF Forbidden(record[1], tokenArg)
          THEN Fail(p, "delete", "FORBIDDEN", id, tokenArg, <<>>, record)
          ELSE LET existingOwner == NormalizeToken(record[1].ownerToken)
               IN /\ nDel < MaxDeletes
                  /\ nDel' = nDel + 1
                  /\ pr' = [pr EXCEPT ![p] =
                              [op |-> "delete", id |-> id, tokenArg |-> tokenArg,
                               content |-> <<>>, seen |-> record, rec |-> None,
                               ver |-> None, owner |-> existingOwner,
                               tasks |-> {"deleteRecord", "pubGet"}
                                         \cup (IF existingOwner # None
                                               THEN {"ownGet"} ELSE {}),
                               dels |-> VersionsToDelete(record[1].versions),
                               pubIdx |-> None, ownIdx |-> None]]
                  /\ UNCHANGED res
                  /\ UNCHANGED <<kv, hist, nDoc, nVer, nKey>>

(* what a create, update or delete returns once Promise.all has resolved *)
Returned(l) ==
    [op |-> l.op, status |-> "OK", id |-> l.id, tokenArg |-> l.tokenArg,
     content |-> l.content, seen |-> l.seen,
     view |-> IF l.op = "delete" THEN None
              ELSE Some(toView(l.rec[1], NormalizeToken(l.tokenArg))),
     version |-> IF l.op = "delete" THEN None
                 ELSE Some([metadata |-> l.ver[1], content |-> l.content])]

(* the entry of hist for a call that returned: base is the head of the
   versions the call read *)
Event(l) ==
    [op |-> l.op, id |-> l.id,
     versionId |-> IF l.op = "delete" THEN <<>> ELSE l.ver[1].versionId,
     base |-> IF l.op = "update" THEN l.seen[1].versions[1].versionId ELSE <<>>]

(* one task of Promise.all has finished its access to the backing store;
   the call returns with the last of them *)
Advance(p, l, store) ==
    /\ res = NoResult
    /\ kv' = store
    /\ IF l.tasks = {} /\ l.dels = {}
       THEN /\ pr' = [pr EXCEPT ![p] = Idle]
            /\ res' = Returned(l)
            /\ hist' = hist \cup {Event(l)}
       ELSE /\ pr' = [pr EXCEPT ![p] = l]
            /\ UNCHANGED <<res, hist>>
    /\ UNCHANGED <<nDoc, nVer, nKey, nDel>>

putRecord(p) ==
    /\ "putRecord" \in pr[p].tasks
    /\ Advance(p, [pr[p] EXCEPT !.tasks = @ \ {"putRecord"}],
               KvPut(kv, DocKey(pr[p].id), pr[p].rec[1]))

putVersion(p) ==
    /\ "putVersion" \in pr[p].tasks
    /\ Advance(p, [pr[p] EXCEPT !.tasks = @ \ {"putVersion"}],
               KvPut(kv, VersionKey(pr[p].id, pr[p].ver[1].versionId),
                     pr[p].content))

deleteRecord(p) ==
    /\ "deleteRecord" \in pr[p].tasks
    /\ Advance(p, [pr[p] EXCEPT !.tasks = @ \ {"deleteRecord"}],
               KvDelete(kv, DocKey(pr[p].id)))

deleteVersion(p) ==
    \E versionId \in pr[p].dels :
        Advance(p, [pr[p] EXCEPT !.dels = @ \ {versionId}],
                KvDelete(kv, VersionKey(pr[p].id, versionId)))

(* updatePublicIndex, first half: getIndex *)
PublicIndexGet(p) ==
    /\ "pubGet" \in pr[p].tasks
    /\ Advance(p, [pr[p] EXCEPT !.tasks = (@ \ {"pubGet"}) \cup {"pubPut"},
                                !.pubIdx = Some(getIndex(kv, PUBLIC_INDEX_KEY))],
               kv)

(* updatePublicIndex, second half: kv.put of the filtered index; isPublic is
   !ownerToken in create, !existingOwner in update, false in delete *)
PublicIndexPut(p) ==
    /\ "pubPut" \in pr[p].tasks
    /\ Advance(p, [pr[p] EXCEPT !.tasks = @ \ {"pubPut"}],
               KvPut(kv, PUBLIC_INDEX_KEY,
                     PublicIndexValue(pr[p].pubIdx[1], pr[p].id,
                                      pr[p].op # "delete" /\ ~Truthy(pr[p].owner))))

(* touchOwnerIndex / removeFromIndex on the owner's index, first half *)
OwnerIndexGet(p) ==
    /\ "ownGet" \in pr[p].tasks
    /\ Advance(p, [pr[p] EXCEPT !.tasks = (@ \ {"ownGet"}) \cup {"ownPut"},
                                !.ownIdx =
                                    Some(getIndex(kv, ownerIndexKey(pr[p].owner[1])))],
               kv)

(* second half: pushToIndex in create and update, removeFromIndex in delete *)
OwnerIndexPut(p) ==
    /\ "ownPut" \in pr[p].tasks
    /\ Advance(p, [pr[p] EXCEPT !.tasks = @ \ {"ownPut"}],
               KvPut(kv, ownerIndexKey(pr[p].owner[1]),
                     IF pr[p].op = "delete"
                     THEN RemoveValue(pr[p].ownIdx[1], pr[p].id)
                     ELSE PushValue(pr[p].ownIdx[1], pr[p].id)))

TaskStep(p) ==
    \/ putRecord(p)
    \/ putVersion(p)
    \/ deleteRecord(p)
    \/ deleteVersion(p)
    \/ PublicIndexGet(p)
    \/ PublicIndexPut(p)
    \/ OwnerIndexGet(p)
    \/ OwnerIndexPut(p)

Call(p, in) ==
    \/ \E title \in in.titles, content \in in.contents, tokenArg \in in.tokens,
          now \in in.times : CreateCall(p, title, content, tokenArg, now)
    \/ \E id \in in.ids, content \in in.contents, tokenArg \in in.tokens,
          now \in in.times : UpdateCall(p, id, content, tokenArg, now)
    \/ \E id \in in.ids, tokenArg \in in.tokens : DeleteCall(p, id, tokenArg)

(* DELETE /api/documents/:id letting a request without token through to
   the store *)
TokenOptional(headerToken) == FALSE

(* DELETE /api/documents/:id: if (!ownerToken) throw forbidden(...) *)
TokenRequired(headerToken) == ~Truthy(headerToken)

(* DELETE /api/documents/:id: the test of the header, then deleteDocument,
   whose errors NOT_FOUND and FORBIDDEN become the responses 404 and 403 *)
DeleteRequest(p, id, headerToken) ==
    IF TokenRequired(headerToken)
    THEN Fail(p, "deleteRequest", "FORBIDDEN", id, headerToken, <<>>, None)
    ELSE DeleteCall(p, id, headerToken)

(* getDocument *)
GetDocumentCall(p, id, viewerToken) ==
    /\ Free(p)
    /\ res' = [op |-> "getDocument", status |-> "OK", id |-> id,
               tokenArg |-> viewerToken, view |-> getDocument(kv, id, viewerToken)]
    /\ UNCHANGED <<kv, pr, hist, nDoc, nVer, nKey, nDel>>

(* getVersion *)
GetVersionCall(p, id, versionId) ==
    /\ Free(p)
    /\ res' = [op |-> "getVersion", status |-> "OK", id |-> id,
               tokenArg |-> None, versionIdArg |-> versionId,
               version |-> getVersion(kv, id, versionId)]
    /\ UNCHANGED <<kv, pr, hist, nDoc, nVer, nKey, nDel>>

ListPublicCall(p, viewerToken, limit, cursor) ==
    /\ Free(p)
    /\ LET page == listPublicDocuments(kv, viewerToken, limit, cursor)
       IN res' = [op |-> "listPublic", status |-> "OK", tokenArg |-> viewerToken,
                  limit |-> limit, cursorArg |-> cursor,
                  documents |-> page.documents, cursor |-> page.cursor]
    /\ UNCHANGED <<kv, pr, hist, nDoc, nVer, nKey, nDel>>

ListOwnerCall(p, ownerToken, limit, cursor) ==
    /\ Free(p)
    /\ LET page == listOwnerDocuments(kv, ownerToken, limit, cursor)
       IN res' = [op |-> "listOwner", status |-> "OK", tokenArg |-> ownerToken,
                  limit |-> limit, cursorArg |-> cursor,
                  documents |-> page.documents, cursor |-> page.cursor]
    /\ UNCHANGED <<kv, pr, hist, nDoc, nVer, nKey, nDel>>

(* GET /api/documents/:id/raw *)
RawRequest(p, id, versionIdArg, rawKey, viewerToken) ==
    /\ Free(p)
    /\ LET r == RawResponse(kv, id, versionIdArg, rawKey, viewerToken)
       IN res' = [op |-> "raw", status |-> r.status, id |-> id,
                  tokenArg |-> viewerToken, versionIdArg |-> versionIdArg,
                  rawKey |-> rawKey, body |-> r.body]
    /\ UNCHANGED <<kv, pr, hist, nDoc, nVer, nKey, nDel>>

(* the calls that only read; each is one step here, which is what it is
   when no other call is in flight *)
Read(p, in) ==
    \/ \E id \in DocIds, viewerToken \in in.tokens :
          GetDocumentCall(p, id, viewerToken)
    \/ \E id \in DocIds, versionId \in VersionIds :
          GetVersionCall(p, id, versionId)
    \/ \E viewerToken \in in.tokens, limit \in Limits,
          cursor \in {None} \cup {Some(d) : d \in DocIds} :
          ListPublicCall(p, viewerToken, limit, cursor)
    \/ \E ownerToken \in in.tokens, limit \in Limits,
          cursor \in {None} \cup {Some(d) : d \in DocIds} :
          ListOwnerCall(p, ownerToken, limit, cursor)
    \/ \E id \in DocIds, versionIdArg \in {None} \cup {Some(v) : v \in VersionIds},
          rawKey \in {None} \cup {Some(k) : k \in RawKeys},
          viewerToken \in HeaderTokens :
          RawRequest(p, id, versionIdArg, rawKey, viewerToken)

(* the caller takes the result of the call that has just finished *)
Respond ==
    /\ res # NoResult
    /\ res' = NoResult
    /\ UNCHANGED <<kv, pr, hist, nDoc, nVer, nKey, nDel>>

AllIdle == \A q \in Procs : pr[q].op = "idle"

(* request handlers run concurrently *)
Next ==
    \/ Respond
    \/ \E p \in Procs : Call(p, ConcInputs) \/ TaskStep(p)

Spec == Init /\ [][Next]_vars

(* one call at a time; the tasks of its Promise.all still run in any order *)
NextSeq ==
    \/ Respond
    \/ Call(1, SeqInputs)
    \/ \E id \in DocIds, headerToken \in HeaderTokens :
          DeleteRequest(1, id, headerToken)
    \/ Read(1, SeqInputs)
    \/ TaskStep(1)

SpecSeq == Init /\ [][NextSeq]_vars

---------------------------------------------------------------------------
(* What the claims speak of *)

Range(seq) == {seq[i] : i \in 1..Len(seq)}

(* the record an update or delete that has just finished was judged on: the
   one it read or, when it threw before reading, the one in the store *)
Judged(r) == IF r.seen # None THEN r.seen ELSE getRecord(kv, r.id)

UpdatesOf(id) == {e \in hist : e.op = "update" /\ e.id = id}

VersionNo(versionId) == CHOOSE k \in 1..MaxVersions : Nanoid("v", k) = versionId

(* the successful update of id whose version id was drawn last *)
LatestUpdate(id) ==
    CHOOSE e \in UpdatesOf(id) :
        \A f \in UpdatesOf(id) : VersionNo(f.versionId) <= VersionNo(e.versionId)

---------------------------------------------------------------------------
(* C1: updateDocument and deleteDocument on an existing document always
   fail FORBIDDEN when the caller's token differs from the stored owner
   token (a missing token included), whatever content is supplied; and any
   call that supplies a non-blank token for a document created without an
   owner also fails FORBIDDEN.  As stated, about the token as supplied. *)
C1_ForbiddenOnAnyDifference ==
    (res.op \in {"update", "delete"} /\ Judged(res) # None) =>
        LET stored == Judged(res)[1].ownerToken
        IN /\ (stored # None /\ res.tokenArg # stored) => res.status = "FORBIDDEN"
           /\ (stored = None /\ res.tokenArg # None /\ Trim(res.tokenArg[1]) # <<>>)
                  => res.status = "FORBIDDEN"

(* C1 as amended: the token is compared after trim(), and updateDocument
   checks the size first: with content within the limit, update and delete
   on an existing document fail FORBIDDEN when the trimmed token differs
   from the stored owner token (a missing or blank token included), or when
   a non-blank token is supplied for a document without owner; an update
   with content over the limit fails FILE_TOO_LARGE. *)
C1_ForbiddenOnTrimmedDifference ==
    (res.op \in {"update", "delete"} /\ Judged(res) # None) =>
        LET stored == Judged(res)[1].ownerToken
            trimmed == IF res.tokenArg = None THEN <<>> ELSE Trim(res.tokenArg[1])
            differs == IF stored # None THEN trimmed # stored[1] ELSE trimmed # <<>>
            over == res.op = "update" /\ ByteLength(res.content) > maxSize
        IN /\ (differs /\ ~over) => res.status = "FORBIDDEN"
           /\ over => res.status = "FILE_TOO_LARGE"

(* an update of a document of owner A with token B has been rejected *)
C1_Witness ==
    /\ res.op = "update"
    /\ res.status = "FORBIDDEN"
    /\ res.seen # None
    /\ res.seen[1].ownerToken = Some(TokenA)
    /\ res.tokenArg = Some(TokenB)

(* C2: after createDocument followed by N successful updateDocument calls
   that run one after another, the stored versions sequence has exactly
   N + 1 entries and versions[0] is the version added by the most recent
   update. *)
C2_VersionOrdering ==
    \A id \in DocIds :
        LET record == getRecord(kv, id)
        IN (AllIdle /\ record # None) =>
              /\ Len(record[1].versions) = Cardinality(UpdatesOf(id)) + 1
              /\ UpdatesOf(id) # {} =>
                     record[1].versions[1].versionId = LatestUpdate(id).versionId
              /\ (res.op = "update" /\ res.status = "OK" /\ res.id = id) =>
                     record[1].versions[1] = res.version[1].metadata

(* a document that two updates have followed *)
C2_Witness ==
    \E id \in DocIds :
        /\ AllIdle
        /\ getRecord(kv, id) # None
        /\ Cardinality(UpdatesOf(id)) = 2
        /\ res.op = "update"
        /\ res.id = id

(* C3: when two updateDocument calls on the same document overlap (both
   read the record before either writes it) and both succeed, then after
   both have finished the versions sequence lists both new versions. *)
C3_NoLostVersion ==
    \A e1, e2 \in hist :
        (/\ e1.op = "update" /\ e2.op = "update"
         /\ e1.id = e2.id /\ e1.versionId # e2.versionId
         /\ e1.base = e2.base
         /\ AllIdle
         /\ getRecord(kv, e1.id) # None) =>
            \A e \in {e1, e2} :
                FindVersion(getRecord(kv, e.id)[1].versions, e.versionId) # None

(* C4: for createDocument and updateDocument, content whose UTF-8 size
   equals the configured maximum is accepted, and content one byte larger
   fails FILE_TOO_LARGE with no write to the backing store and no task left
   behind. *)
C4_SizeLimit ==
    [][(res' # res /\ res'.op \in {"create", "update"}) =>
          /\ ByteLength(res'.content) = maxSize => res'.status # "FILE_TOO_LARGE"
          /\ (res'.op = "create" /\ ByteLength(res'.content) <= maxSize)
                 => res'.status = "OK"
          /\ ByteLength(res'.content) = maxSize + 1 =>
                 /\ res'.status = "FILE_TOO_LARGE"
                 /\ kv' = kv
                 /\ pr' = pr]_vars

(* an update of an existing document with content one byte over the limit
   has been rejected *)
C4_Witness ==
    /\ res.op = "update"
    /\ res.status = "FILE_TOO_LARGE"
    /\ ByteLength(res.content) = maxSize + 1
    /\ getRecord(kv, res.id) # None

(* the content saved as the latest version of a stored record: the blob
   under version:<id>:<versions[0].versionId> *)
LatestContent(store, metadata) ==
    KvGet(store, VersionKey(metadata.id, metadata.versions[1].versionId))

(* C5: after a successful updateDocument on an owned document the stored
   rawAccessKey is a new value: a raw-content request by a non-owner that
   presents the key valid before the update is rejected FORBIDDEN, and the
   same request with the new key returns the content. *)
C5_RawKeyRotation ==
    (res.op = "update" /\ res.status = "OK" /\ res.seen[1].ownerToken # None) =>
        LET old == res.seen[1].rawAccessKey
            new == getRecord(kv, res.id)[1].rawAccessKey
        IN /\ new # old
           /\ \A viewerToken \in HeaderTokens \ {res.seen[1].ownerToken} :
                 /\ RawResponse(kv, res.id, None, old, viewerToken).status = "FORBIDDEN"
                 /\ RawResponse(kv, res.id, None, new, viewerToken) =
                        [status |-> "OK", body |-> Some(res.content)]

(* C6: the raw-content request returns content of a private document only
   when the requester presents the stored owner token or the document's
   current raw-access key; with a wrong or missing token and no matching
   rawKey it fails FORBIDDEN, and for a public document it returns the
   content to anyone. *)
C6_RawAccess ==
    (res.op = "raw" /\ getRecord(kv, res.id) # None) =>
        LET metadata == getRecord(kv, res.id)[1]
            authorized == \/ res.tokenArg = metadata.ownerToken
                          \/ res.rawKey = metadata.rawAccessKey
        IN IF metadata.ownerToken # None
           THEN /\ res.status = "OK" => authorized
                /\ ~authorized => res.status = "FORBIDDEN"
           ELSE res.versionIdArg = None =>
                    /\ res.status = "OK"
                    /\ res.body = LatestContent(kv, metadata)

(* the fields of a DocumentView: those of StoredDocumentMetadata without
   ownerToken, with isOwner and isPrivate *)
ViewFields ==
    {"id", "title", "createdAt", "updatedAt", "size", "versions", "isOwner",
     "isPrivate", "rawAccessKey"}

(* the views a finished call handed to its caller *)
ReturnedViews(r) ==
    IF r.op \in {"create", "update", "getDocument"} /\ r.status = "OK"
    THEN Range(r.view)
    ELSE IF r.op \in {"listPublic", "listOwner"} THEN Range(r.documents)
    ELSE {}

(* the token toView is given by the call: createDocument and
   updateDocument pass the trimmed token, the reads pass the viewer's *)
ViewerOf(r) ==
    IF r.op \in {"create", "update"} THEN NormalizeToken(r.tokenArg) ELSE r.tokenArg

(* the store with the owner token of the record of id replaced *)
WithOwner(store, id, ownerToken) ==
    KvPut(store, DocKey(id), [store[DocKey(id)] EXCEPT !.ownerToken = ownerToken])

TokenC == <<"C">>

(* C7: no DocumentView returned by createDocument, updateDocument,
   getDocument, listPublicDocuments or listOwnerDocuments carries the owner
   token: for two stores that differ only in the value of a document's
   owner token (both set, both different from the viewer's token) the
   returned views are identical, with isOwner true exactly when the
   viewer's token equals the stored owner token. *)
C7_ViewHidesOwnerToken ==
    /\ \A v \in ReturnedViews(res) :
          /\ DOMAIN v = ViewFields
          /\ getRecord(kv, v.id) # None =>
                 LET ownerToken == getRecord(kv, v.id)[1].ownerToken
                 IN v.isOwner <=> (ownerToken # None /\ ViewerOf(res) = ownerToken)
    /\ \A id \in DocIds, other \in {TokenA, TokenB, TokenC} :
          (/\ getRecord(kv, id) # None
           /\ getRecord(kv, id)[1].ownerToken # None
           /\ getRecord(kv, id)[1].ownerToken # res.tokenArg
           /\ Some(other) # res.tokenArg) =>
              LET store == WithOwner(kv, id, Some(other))
              IN /\ (res.op = "getDocument" /\ res.id = id) =>
                        getDocument(store, id, res.tokenArg) = res.view
                 /\ res.op = "listPublic" =>
                        listPublicDocuments(store, res.tokenArg, res.limit,
                                            res.cursorArg)
                            = [documents |-> res.documents, cursor |-> res.cursor]
                 /\ res.op = "listOwner" =>
                        listOwnerDocuments(store, res.tokenArg, res.limit,
                                           res.cursorArg)
                            = [documents |-> res.documents, cursor |-> res.cursor]

(* getDocument has handed the view of a document of owner A to a viewer
   with token B *)
C7_Witness ==
    /\ res.op = "getDocument"
    /\ res.tokenArg = Some(TokenB)
    /\ res.view # None
    /\ res.view[1].isPrivate
    /\ ~res.view[1].isOwner
    /\ getRecord(kv, res.id)[1].ownerToken = Some(TokenA)

(* C8: in every stored document record and every returned view the three
   facts coincide: the document is private, its owner token is set, and its
   raw-access key is set. *)
C8_PrivateOwnerKey ==
    /\ \A id \in DocIds :
          getRecord(kv, id) # None =>
              (Truthy(getRecord(kv, id)[1].ownerToken)
                   <=> Truthy(getRecord(kv, id)[1].rawAccessKey))
    /\ \A v \in ReturnedViews(res) :
          /\ v.isPrivate <=> Truthy(v.rawAccessKey)
          /\ getRecord(kv, v.id) # None =>
                 (v.isPrivate <=> Truthy(getRecord(kv, v.id)[1].ownerToken))

(* a private and a public record are stored and the view of the public one
   has been returned *)
C8_Witness ==
    /\ \E id \in DocIds :
          getRecord(kv, id) # None /\ Truthy(getRecord(kv, id)[1].rawAccessKey)
    /\ \E v \in ReturnedViews(res) : ~v.isPrivate

(* C9: after a successful deleteDocument(id) that runs with no other
   operation in flight, the backing store holds no record doc:<id>, no
   content blob for any version that the document listed, and id occurs in
   neither the public index nor the owner's index. *)
C9_DeleteRemovesAll ==
    (res.op = "delete" /\ res.status = "OK") =>
        LET metadata == res.seen[1]
        IN /\ DocKey(res.id) \notin DOMAIN kv
           /\ \A i \in 1..Len(metadata.versions) :
                 VersionKey(res.id, metadata.versions[i].versionId) \notin DOMAIN kv
           /\ res.id \notin Range(getIndex(kv, PUBLIC_INDEX_KEY))
           /\ metadata.ownerToken # None =>
                  res.id \notin Range(getIndex(kv, ownerIndexKey(metadata.ownerToken[1])))

(* an owned document with two versions has been deleted *)
C9_Witness ==
    /\ res.op = "delete"
    /\ res.status = "OK"
    /\ res.seen[1].ownerToken # None
    /\ Len(res.seen[1].versions) >= 2

(* C10: deletion is irreversible: once deleteDocument(id) has returned
   successfully, in every later state getDocument(id) is absent and no
   version blob of id is stored, also when an updateDocument on id was in
   flight while the delete ran. *)
C10_DeleteIrreversible ==
    \A e \in hist :
        e.op = "delete" =>
            /\ getDocument(kv, e.id, None) = None
            /\ \A versionId \in VersionIds : VersionKey(e.id, versionId) \notin DOMAIN kv

---------------------------------------------------------------------------
(* C11: updateDocument on an id that has no document record fails
   NOT_FOUND, for every content and every token supplied, and
   deleteDocument on such an id fails NOT_FOUND as well.  As stated. *)
C11_NotFoundForEveryContent ==
    (res.op \in {"update", "delete"} /\ Judged(res) = None) =>
        res.status = "NOT_FOUND"

(* C11 as amended: updateDocument checks the size first: on an id without
   record it fails NOT_FOUND for every token and every content within the
   size limit, and FILE_TOO_LARGE for content over the limit; deleteDocument
   on such an id fails NOT_FOUND for every token. *)
C11_NotFoundWithinLimit ==
    (res.op \in {"update", "delete"} /\ Judged(res) = None) =>
        IF res.op = "update" /\ ByteLength(res.content) > maxSize
        THEN res.status = "FILE_TOO_LARGE"
        ELSE res.status = "NOT_FOUND"

(* an update with the token of the former owner, on the id of a document
   that has been deleted, was rejected NOT_FOUND *)
C11_Witness ==
    /\ res.op = "update"
    /\ res.status = "NOT_FOUND"
    /\ res.tokenArg = Some(TokenA)
    /\ \E e \in hist : e.op = "delete" /\ e.id = res.id

---------------------------------------------------------------------------
(* The read operations over a namespace the store did not fill itself.

   A DocumentStore is constructed for each request over the namespace as it
   is (router.ts, app.use).  Records, blobs and indexes are separate keys
   written by separate puts, so an index may name an id that has no record,
   a record may be missing from its index, and a blob may be stored for a
   version that no record lists; loadViews and getVersion are written
   against such contents.  The namespaces with the index of owner A hold
   the same index under the key of the empty owner token as well, which
   listOwnerDocuments must not read. *)

MaxIndex == 5
MaxLimit == 3

(* ids in the order of their creation, newest first: <<d5, d4, d3, d2, d1>> *)
PageIds == {Nanoid("d", k) : k \in 1..MaxIndex}
NewestFirst == [i \in 1..MaxIndex |-> Nanoid("d", MaxIndex + 1 - i)]

(* an index: some of the ids, none of them twice *)
Indexes == {SelectSeq(NewestFirst, LAMBDA id : id \in S) : S \in SUBSET PageIds}

(* version ids: the one a stored record lists, one that only has a blob,
   one that is nowhere *)
ListedVersion == <<"v1">>
OrphanVersion == <<"v2">>
UnknownVersion == <<"v3">>

StoredContent == AtLimit

(* a record as createDocument writes it *)
StoredRecord(id, ownerToken) ==
    [id |-> id, title |-> <<"a.md">>, createdAt |-> 0, updatedAt |-> 0,
     size |-> ByteLength(StoredContent),
     versions |-> <<VersionMetadata(ListedVersion, 0, StoredContent)>>,
     ownerToken |-> ownerToken,
     rawAccessKey |-> CreateRawKey(ownerToken, Nanoid("k", 1))]

(* which ids have a record and who owns it: all records alike, or one of
   another owner, or one missing *)
Profiles(base) ==
    {[owners |-> [id \in PageIds |-> base], missing |-> {}]}
    \cup {[owners |-> [id \in PageIds |-> IF id = odd THEN other ELSE base],
           missing |-> {}] :
              odd \in PageIds, other \in {None, Some(TokenA), Some(TokenB)} \ {base}}
    \cup {[owners |-> [id \in PageIds |-> base], missing |-> {odd}] :
              odd \in PageIds}

(* the namespace with one index, the records of a profile, and for every id
   the blobs of the given version ids *)
Namespace(indexKey, index, profile, blobVersions) ==
    LET recs == PageIds \ profile.missing
        owners == profile.owners
        keys == {indexKey} \cup {DocKey(id) : id \in recs}
                \cup {VersionKey(id, v) : id \in PageIds, v \in blobVersions}
    IN [key \in keys |->
          IF key = indexKey THEN index
          ELSE IF \E id \in recs : key = DocKey(id)
          THEN LET id == CHOOSE i \in recs : key = DocKey(i)
               IN StoredRecord(id, owners[id])
          ELSE StoredContent]

Namespaces ==
    {Namespace(PUBLIC_INDEX_KEY, index, profile, blobVersions) :
         index \in Indexes, profile \in Profiles(None),
         blobVersions \in {{}, {ListedVersion}, {ListedVersion, OrphanVersion}}}
    \cup
    {Namespace(ownerIndexKey(TokenA), index, profile, blobVersions)
         @@ (ownerIndexKey(<<>>) :> index) :
         index \in Indexes, profile \in Profiles(Some(TokenA)),
         blobVersions \in {{}, {ListedVersion}, {ListedVersion, OrphanVersion}}}

InitRead ==
    /\ kv \in Namespaces
    /\ pr = [p \in Procs |-> Idle]
    /\ res = NoResult
    /\ hist = {}
    /\ nDoc = 0
    /\ nVer = 0
    /\ nKey = 0
    /\ nDel = 0

ReadTokens == {None, Some(<<>>), Some(TokenA), Some(TokenB)}
Cursors == {None, Some(<<>>)} \cup {Some(id) : id \in PageIds}

(* one list call of a client that pages: listPublicDocuments or
   listOwnerDocuments with the cursor it holds *)
ListPage(store, list, tokenArg, limit, cursor) ==
    IF list = "listPublic" THEN listPublicDocuments(store, tokenArg, limit, cursor)
    ELSE listOwnerDocuments(store, tokenArg, limit, cursor)

(* the ids the page was cut from: the slice of the list call *)
PageSlice(store, list, tokenArg, limit, cursor) ==
    LET key == IF list = "listPublic" THEN PUBLIC_INDEX_KEY
               ELSE ownerIndexKey(tokenArg[1])
    IN IF list = "listOwner" /\ ~Truthy(tokenArg) THEN <<>>
       ELSE sliceIndex(getIndex(store, key), limit, cursor).slice

(* a client starts paging: the first call has no cursor *)
PageStart(p, list, tokenArg, limit) ==
    /\ Free(p)
    /\ LET page == ListPage(kv, list, tokenArg, limit, None)
       IN res' = [op |-> "page", status |-> "OK", list |-> list,
                  tokenArg |-> tokenArg, limit |-> limit,
                  pages |-> <<[slice |-> PageSlice(kv, list, tokenArg, limit, None),
                               documents |-> page.documents,
                               cursor |-> page.cursor]>>]
    /\ UNCHANGED <<kv, pr, hist, nDoc, nVer, nKey, nDel>>

(* the client asks for the next page with the cursor the last page came
   with, as long as there was one *)
PageNext ==
    /\ res.op = "page"
    /\ res.pages[Len(res.pages)].cursor # None
    /\ LET cursor == res.pages[Len(res.pages)].cursor
           page == ListPage(kv, res.list, res.tokenArg, res.limit, cursor)
       IN res' = [res EXCEPT !.pages =
                     Append(@, [slice |-> PageSlice(kv, res.list, res.tokenArg,
                                                    res.limit, cursor),
                                documents |-> page.documents,
                                cursor |-> page.cursor])]
    /\ UNCHANGED <<kv, pr, hist, nDoc, nVer, nKey, nDel>>

(* reads on any namespace, one at a time *)
NextRead ==
    \/ Respond
    \/ \E viewerToken \in ReadTokens, limit \in Limits, cursor \in Cursors :
          ListPublicCall(1, viewerToken, limit, cursor)
    \/ \E ownerToken \in ReadTokens, limit \in Limits, cursor \in Cursors :
          ListOwnerCall(1, ownerToken, limit, cursor)
    \/ \E id \in PageIds,
          versionId \in {ListedVersion, OrphanVersion, UnknownVersion} :
          GetVersionCall(1, id, versionId)
    \/ \E list \in {"listPublic", "listOwner"}, tokenArg \in ReadTokens,
          limit \in 1..MaxLimit : PageStart(1, list, tokenArg, limit)
    \/ PageNext

SpecRead == InitRead /\ [][NextRead]_vars

---------------------------------------------------------------------------
(* What the claims on listing speak of *)

(* the index a list call reads: none for listOwnerDocuments without token *)
ListedIndex(store, list, tokenArg) ==
    IF list = "listPublic" THEN getIndex(store, PUBLIC_INDEX_KEY)
    ELSE IF Truthy(tokenArg) THEN getIndex(store, ownerIndexKey(tokenArg[1]))
    ELSE <<>>

(* how many index entries come up to and including the cursor: 0 when the
   cursor is absent, empty or not in the index *)
EntriesUpTo(index, cursor) ==
    IF cursor # None /\ \E i \in 1..Len(index) : index[i] = cursor[1]
    THEN CHOOSE i \in 1..Len(index) :
             /\ index[i] = cursor[1]
             /\ \A j \in 1..(i - 1) : index[j] # cursor[1]
    ELSE 0

(* the record of id exists and a list call shows it to the viewer *)
Shown(store, id, viewerToken) ==
    /\ DocKey(id) \in DOMAIN store
    /\ \/ store[DocKey(id)].ownerToken = None
       \/ store[DocKey(id)].ownerToken = viewerToken

Ids(views) == [i \in 1..Len(views) |-> views[i].id]

(* C12: for an index that does not change and a limit L >= 1, calling
   listPublicDocuments first without cursor and then with each returned
   cursor visits consecutive slices of L index ids in index order, covers
   every index id exactly once, and ends with a page whose cursor is absent
   (for [d5,d4,d3,d2,d1] and L = 2: [d5,d4]/d4, [d3,d2]/d2, [d1]/absent). *)
C12_PagingCoversIndex ==
    (res.op = "page" /\ res.list = "listPublic") =>
        LET index == getIndex(kv, PUBLIC_INDEX_KEY)
            L == res.limit
            n == Len(res.pages)
        IN /\ \A k \in 1..n :
                 /\ res.pages[k].slice =
                        SubSeq(index, (k - 1) * L + 1, Min(k * L, Len(index)))
                 /\ Ids(res.pages[k].documents) =
                        SelectSeq(res.pages[k].slice,
                                  LAMBDA id : Shown(kv, id, res.tokenArg))
                 /\ res.pages[k].cursor # None <=> k * L < Len(index)
                 /\ res.pages[k].cursor # None =>
                        res.pages[k].cursor = Some(index[k * L])
           /\ n > 1 => (n - 1) * L < Len(index)

(* the index is [d5,d4,d3,d2,d1], every id has a public record, and paging
   with limit 2 has returned [d5,d4]/d4, [d3,d2]/d2, [d1]/absent *)
C12_Witness ==
    /\ res.op = "page"
    /\ res.list = "listPublic"
    /\ res.limit = 2
    /\ getIndex(kv, PUBLIC_INDEX_KEY) = NewestFirst
    /\ Len(res.pages) = 3
    /\ Ids(res.pages[1].documents) = SubSeq(NewestFirst, 1, 2)
    /\ res.pages[1].cursor = Some(NewestFirst[2])
    /\ Ids(res.pages[2].documents) = SubSeq(NewestFirst, 3, 4)
    /\ res.pages[2].cursor = Some(NewestFirst[4])
    /\ Ids(res.pages[3].documents) = SubSeq(NewestFirst, 5, 5)
    /\ res.pages[3].cursor = None

(* C13: for every list call: the slice starts right after the cursor's
   position in the index, or at position 0 when the cursor is absent or not
   in the index; the returned cursor is absent exactly when no index
   entries follow the slice, and when present it is the id of the last
   document of the returned page.  As stated. *)
C13_CursorIsLastDocument ==
    (res.op \in {"listPublic", "listOwner"}) =>
        LET index == ListedIndex(kv, res.op, res.tokenArg)
            start == EntriesUpTo(index, res.cursorArg)
            slice == SubSeq(index, start + 1, Min(start + res.limit, Len(index)))
        IN /\ Ids(res.documents) =
                  SelectSeq(slice, LAMBDA id : Shown(kv, id, res.tokenArg))
           /\ res.cursor = None <=> start + res.limit >= Len(index)
           /\ res.cursor # None =>
                  /\ res.documents # <<>>
                  /\ res.cursor = Some(res.documents[Len(res.documents)].id)

(* C13 as amended: the returned cursor, when present, is the last id of the
   slice, whether or not that id's document is on the returned page: it is
   the id of the last returned document when that id has a record shown to
   the viewer. *)
C13_CursorIsLastOfSlice ==
    (res.op \in {"listPublic", "listOwner"}) =>
        LET index == ListedIndex(kv, res.op, res.tokenArg)
            start == EntriesUpTo(index, res.cursorArg)
            slice == SubSeq(index, start + 1, Min(start + res.limit, Len(index)))
        IN /\ Ids(res.documents) =
                  SelectSeq(slice, LAMBDA id : Shown(kv, id, res.tokenArg))
           /\ res.cursor = None <=> start + res.limit >= Len(index)
           /\ res.cursor # None =>
                  /\ res.cursor = Some(slice[Len(slice)])
                  /\ Shown(kv, slice[Len(slice)], res.tokenArg) =>
                         res.cursor = Some(res.documents[Len(res.documents)].id)

(* a list call with a cursor that is in the index has returned a page and a
   cursor, and one with a cursor that is not in the index would start at
   the first entry *)
C13_Witness ==
    /\ res.op = "listPublic"
    /\ res.cursorArg # None
    /\ EntriesUpTo(getIndex(kv, PUBLIC_INDEX_KEY), res.cursorArg) = 2
    /\ res.cursor # None
    /\ Len(res.documents) = 2

(* C14: when an index contains an id whose document record does not exist,
   listPublicDocuments and listOwnerDocuments complete without error and
   return the views of the other ids of the slice, leaving the missing one
   out. *)
C14_MissingRecordSkipped ==
    (res.op \in {"listPublic", "listOwner"}) =>
        LET index == ListedIndex(kv, res.op, res.tokenArg)
            slice == sliceIndex(index, res.limit, res.cursorArg).slice
            kept == SelectSeq(slice, LAMBDA id : Shown(kv, id, res.tokenArg))
        IN /\ res.status = "OK"
           /\ Len(res.documents) = Len(kept)
           /\ \A i \in 1..Len(kept) :
                 res.documents[i] = toView(kv[DocKey(kept[i])], res.tokenArg)
           /\ \A i \in 1..Len(res.documents) :
                 DocKey(res.documents[i].id) \in DOMAIN kv

(* a page of two index entries of which the first has no record has come
   back with the view of the second *)
C14_Witness ==
    /\ res.op \in {"listPublic", "listOwner"}
    /\ res.limit = 2
    /\ res.cursorArg = None
    /\ LET index == ListedIndex(kv, res.op, res.tokenArg)
       IN /\ Len(index) >= 2
          /\ DocKey(index[1]) \notin DOMAIN kv
          /\ Ids(res.documents) = <<index[2]>>

---------------------------------------------------------------------------
(* Writes on a namespace with a stale index entry.

   When a delete and an update of one document overlap, the update's
   pushToIndex can land after the delete has finished: the index then names
   an id whose record is gone.  StaleId is such an id, left in the public
   index or in the index of owner A by earlier requests. *)

StaleId == Nanoid("d", 0)

StaleNamespaces ==
    {(PUBLIC_INDEX_KEY :> <<StaleId>>),
     (ownerIndexKey(TokenA) :> <<StaleId>>),
     (PUBLIC_INDEX_KEY :> <<StaleId>>) @@ (ownerIndexKey(TokenA) :> <<StaleId>>)}

InitHeal ==
    /\ kv \in StaleNamespaces
    /\ pr = [p \in Procs |-> Idle]
    /\ res = NoResult
    /\ hist = {}
    /\ nDoc = 0
    /\ nVer = 0
    /\ nKey = 0
    /\ nDel = 0

HealInputs ==
    [titles |-> {<<"a.md">>},
     contents |-> {AtLimit},
     tokens |-> {None, Some(TokenA)},
     times |-> {0},
     ids |-> DocIds \cup {StaleId}]

(* one call at a time *)
NextHeal ==
    \/ Respond
    \/ Call(1, HealInputs)
    \/ TaskStep(1)

SpecHeal == InitHeal /\ [][NextHeal]_vars

(* the ids an index names that have no record *)
StaleIn(store, index) ==
    {index[i] : i \in {j \in 1..Len(index) : DocKey(index[j]) \notin DOMAIN store}}

(* the owner whose index a finished create, update or delete has touched *)
TouchedOwner(r) ==
    IF r.op = "create" THEN NormalizeToken(r.tokenArg) ELSE r.seen[1].ownerToken

(* C15: an index entry whose document record does not exist does not stay
   forever: a later touch of that index by a store operation (create,
   update or delete) removes the stale id from the index: once such an
   operation has finished, the indexes it has written name no id without
   record. *)
C15_StaleEntryRemoved ==
    (res.op \in {"create", "update", "delete"} /\ res.status = "OK") =>
        /\ StaleIn(kv, getIndex(kv, PUBLIC_INDEX_KEY)) = {}
        /\ TouchedOwner(res) # None =>
               StaleIn(kv, getIndex(kv, ownerIndexKey(TouchedOwner(res)[1]))) = {}

---------------------------------------------------------------------------
(* id is in the index after exactly once, in front, and the other ids are
   those of the index before, in the same order *)
MovedToFront(before, after, id) ==
    /\ after # <<>>
    /\ after[1] = id
    /\ SelectSeq(after, LAMBDA x : x = id) = <<id>>
    /\ SelectSeq(after, LAMBDA x : x # id) = SelectSeq(before, LAMBDA x : x # id)

(* C16: after an updateDocument whose index write is not overlapped by
   another write to the same index (the index is, when the update writes
   it, as the update read it), the document's id occurs exactly once in its
   index (the public index for a document without owner, the owner's index
   otherwise), at position 0, and all other ids keep their relative order;
   also when the id had been dropped from the index by an earlier race. *)
C16_UpdateMovesToFront ==
    [][\A p \in Procs :
          /\ (/\ pr[p].op = "update"
              /\ pr[p].owner = None
              /\ PublicIndexPut(p)
              /\ pr[p].pubIdx[1] = getIndex(kv, PUBLIC_INDEX_KEY)) =>
                 MovedToFront(getIndex(kv, PUBLIC_INDEX_KEY),
                              getIndex(kv', PUBLIC_INDEX_KEY), pr[p].id)
          /\ (/\ pr[p].op = "update"
              /\ pr[p].owner # None
              /\ OwnerIndexPut(p)
              /\ pr[p].ownIdx[1] = getIndex(kv, ownerIndexKey(pr[p].owner[1]))) =>
                 MovedToFront(getIndex(kv, ownerIndexKey(pr[p].owner[1])),
                              getIndex(kv', ownerIndexKey(pr[p].owner[1])),
                              pr[p].id)]_vars

(* an update of a public document whose id was missing from the public
   index it read, next to the id of another document, has written the index
   and the id is in front of it *)
C16_Witness ==
    \E p \in Procs :
        /\ pr[p].op = "update"
        /\ pr[p].owner = None
        /\ pr[p].pubIdx # None
        /\ pr[p].pubIdx[1] # <<>>
        /\ \A i \in 1..Len(pr[p].pubIdx[1]) : pr[p].pubIdx[1][i] # pr[p].id
        /\ pr[p].tasks \cap {"pubGet", "pubPut"} = {}
        /\ getIndex(kv, PUBLIC_INDEX_KEY) = <<pr[p].id>> \o pr[p].pubIdx[1]

---------------------------------------------------------------------------
(* C17: listPublicDocuments never returns a view of a document whose owner
   token is set and differs from the viewer's token, listOwnerDocuments(T)
   never returns a view of a document owned by a token other than T, and
   listOwnerDocuments with no token returns an empty page with absent
   cursor whatever the store holds. *)
C17_ListsHideForeignDocuments ==
    /\ res.op \in {"listPublic", "listOwner"} =>
          \A i \in 1..Len(res.documents) :
              LET ownerToken == kv[DocKey(res.documents[i].id)].ownerToken
              IN ownerToken = None \/ ownerToken = res.tokenArg
    /\ (res.op = "listOwner" /\ (res.tokenArg = None \/ res.tokenArg = Some(<<>>))) =>
          /\ res.documents = <<>>
          /\ res.cursor = None

(* viewer A has listed a public index that names a document of owner B
   among its first two ids and has been given the other one only *)
C17_Witness ==
    /\ res.op = "listPublic"
    /\ res.tokenArg = Some(TokenA)
    /\ res.limit = 2
    /\ res.cursorArg = None
    /\ Len(res.documents) = 1
    /\ LET index == getIndex(kv, PUBLIC_INDEX_KEY)
       IN \E i \in 1..2 :
             /\ Len(index) >= 2
             /\ DocKey(index[i]) \in DOMAIN kv
             /\ kv[DocKey(index[i])].ownerToken = Some(TokenB)

---------------------------------------------------------------------------
(* C18: getVersion(documentId, versionId) returns absent whenever versionId
   is not listed in the versions of the existing record of documentId, even
   when a content blob is stored under that key, and returns absent when
   the record itself is missing; when it returns a version, the metadata is
   the listed entry with that versionId. *)
C18_GetVersionCrossChecks ==
    res.op = "getVersion" =>
        LET listed == IF DocKey(res.id) \in DOMAIN kv
                      THEN {v \in Range(kv[DocKey(res.id)].versions) :
                                v.versionId = res.versionIdArg}
                      ELSE {}
        IN /\ listed = {} => res.version = None
           /\ res.version # None =>
                 /\ res.version[1].metadata \in listed
                 /\ res.version[1].content =
                        kv[VersionKey(res.id, res.versionIdArg)]

(* getVersion has returned absent for a version id that has a blob but is
   not listed in the existing record *)
C18_Witness ==
    /\ res.op = "getVersion"
    /\ res.version = None
    /\ DocKey(res.id) \in DOMAIN kv
    /\ VersionKey(res.id, res.versionIdArg) \in DOMAIN kv
    /\ \A v \in Range(kv[DocKey(res.id)].versions) : v.versionId # res.versionIdArg

---------------------------------------------------------------------------
(* older is what remains of newer after some entries in front *)
IsSuffix(older, newer) ==
    /\ Len(older) <= Len(newer)
    /\ SubSeq(newer, Len(newer) - Len(older) + 1, Len(newer)) = older

(* C19: in every reachable state each stored document record has a
   non-empty versions sequence, and every record write by updateDocument
   keeps the versions it read unchanged as a suffix: an existing version
   entry is never edited, reordered or removed, and a version's content
   blob is never overwritten; only whole-document deletion removes
   versions: in every step, the versions of a record that stays stored
   remain as a suffix, and a blob is changed by no step and removed only by
   a task of deleteDocument. *)
C19_VersionsOnlyGrow ==
    [][/\ \A id \in DocIds :
             /\ DocKey(id) \in DOMAIN kv' => kv'[DocKey(id)].versions # <<>>
             /\ (DocKey(id) \in DOMAIN kv /\ DocKey(id) \in DOMAIN kv') =>
                    IsSuffix(kv[DocKey(id)].versions, kv'[DocKey(id)].versions)
             /\ \A versionId \in VersionIds :
                    VersionKey(id, versionId) \in DOMAIN kv =>
                        IF VersionKey(id, versionId) \in DOMAIN kv'
                        THEN kv'[VersionKey(id, versionId)] =
                                 kv[VersionKey(id, versionId)]
                        ELSE \E p \in Procs :
                                 /\ pr[p].op = "delete"
                                 /\ pr[p].id = id
                                 /\ versionId \in pr[p].dels
       /\ \A p \in Procs :
             (pr'[p].op = "update" /\ pr[p].op = "idle") =>
                 IsSuffix(pr'[p].seen[1].versions, pr'[p].rec[1].versions)]_vars

---------------------------------------------------------------------------
(* C20: after a successful createDocument with no other operation in
   flight, the record doc:<id> exists with exactly one version, the blob
   version:<id>:<versionId> holds the given content, and the new id is at
   the front of the public index if and only if the document has no owner
   and at the front of the owner's index if and only if it has one. *)
C20_CreatePersistsAll ==
    (res.op = "create" /\ res.status = "OK") =>
        LET id == res.view[1].id
            versionId == res.version[1].metadata.versionId
            public == getIndex(kv, PUBLIC_INDEX_KEY)
            ownerToken == IF res.tokenArg = None THEN <<>> ELSE Trim(res.tokenArg[1])
            owners == getIndex(kv, ownerIndexKey(ownerToken))
        IN /\ DocKey(id) \in DOMAIN kv
           /\ Len(kv[DocKey(id)].versions) = 1
           /\ kv[DocKey(id)].versions[1] = res.version[1].metadata
           /\ kv[DocKey(id)].id = id
           /\ VersionKey(id, versionId) \in DOMAIN kv
           /\ kv[VersionKey(id, versionId)] = res.content
           /\ (public # <<>> /\ public[1] = id) <=> ownerToken = <<>>
           /\ id \in Range(public) <=> ownerToken = <<>>
           /\ (owners # <<>> /\ owners[1] = id) <=> ownerToken # <<>>
           /\ kv[DocKey(id)].ownerToken =
                  (IF ownerToken = <<>> THEN None ELSE Some(ownerToken))

(* a document of owner A has been created after a public one, with empty
   content *)
C20_Witness ==
    /\ res.op = "create"
    /\ res.status = "OK"
    /\ res.tokenArg = Some(<<" ">> \o TokenA)
    /\ res.content = <<>>
    /\ getIndex(kv, PUBLIC_INDEX_KEY) # <<>>
    /\ getIndex(kv, ownerIndexKey(TokenA)) = <<res.view[1].id>>

---------------------------------------------------------------------------
(* a token that is given and holds nothing but white space *)
IsBlank(opt) == opt # None /\ \A i \in 1..Len(opt[1]) : IsSpace(opt[1][i])

(* C21: an empty or whitespace-only owner token counts as no token:
   createDocument with such a token stores a public document (no owner
   token, no raw-access key, listed in the public index), and
   updateDocument or deleteDocument with such a token on a public document
   is not rejected FORBIDDEN. *)
C21_BlankTokenIsNoToken ==
    /\ (res.op = "create" /\ res.status = "OK" /\ IsBlank(res.tokenArg)) =>
          LET record == getRecord(kv, res.id)
              index == getIndex(kv, PUBLIC_INDEX_KEY)
          IN /\ record # None
             /\ record[1].ownerToken = None
             /\ record[1].rawAccessKey = None
             /\ index # <<>> /\ Head(index) = res.id
             /\ \A token \in {<<>>, <<" ">>, TokenA, <<" ">> \o TokenA} :
                    res.id \notin Range(getIndex(kv, ownerIndexKey(token)))
             /\ ~res.view[1].isPrivate
             /\ res.view[1].rawAccessKey = None
    /\ (/\ res.op \in {"update", "delete"}
        /\ IsBlank(res.tokenArg)
        /\ Judged(res) # None
        /\ Judged(res)[1].ownerToken = None) =>
          /\ res.status # "FORBIDDEN"
          /\ (res.op = "delete" \/ ByteLength(res.content) <= maxSize) =>
                 res.status = "OK"

(* the newest document, public while no raw-access key was ever drawn, has
   been updated with the token "" *)
C21_Witness ==
    /\ res.op = "update"
    /\ res.status = "OK"
    /\ res.tokenArg = Some(<<>>)
    /\ res.seen[1].ownerToken = None
    /\ \E k \in 1..MaxDocs : res.id = Nanoid("d", k) /\ k = nDoc
    /\ nKey = 0
    /\ Head(getIndex(kv, PUBLIC_INDEX_KEY)) = res.id

---------------------------------------------------------------------------
(* C22: getDocument, getVersion, listPublicDocuments and listOwnerDocuments
   leave every key of the backing store unchanged, and getDocument returns
   a view for an existing private document to any viewer (isOwner false for
   a non-owner) instead of rejecting the call. *)
C22_ReadsWriteNothing ==
    [][(/\ res' # res
        /\ res'.op \in {"getDocument", "getVersion", "listPublic", "listOwner"}) =>
          /\ kv' = kv
          /\ pr' = pr
          /\ (res'.op = "getDocument" /\ getRecord(kv, res'.id) # None) =>
                LET metadata == getRecord(kv, res'.id)[1]
                    owned == metadata.ownerToken # None
                IN /\ res'.view # None
                   /\ res'.view[1].id = res'.id
                   /\ res'.view[1].versions = metadata.versions
                   /\ res'.view[1].isPrivate = owned
                   /\ res'.view[1].isOwner =
                          (owned /\ res'.tokenArg = metadata.ownerToken)]_vars

(* getDocument has returned the view of a document of owner A, after an
   update, to a viewer with token B, and not as its owner *)
C22_Witness ==
    /\ res.op = "getDocument"
    /\ res.tokenArg = Some(TokenB)
    /\ res.view # None
    /\ res.view[1].isPrivate
    /\ ~res.view[1].isOwner
    /\ Len(res.view[1].versions) = 2
    /\ getRecord(kv, res.id)[1].ownerToken = Some(TokenA)

---------------------------------------------------------------------------
(* the fields of a record that say which document it is and whose *)
Identity(metadata) ==
    [id |-> metadata.id, title |-> metadata.title,
     createdAt |-> metadata.createdAt, ownerToken |-> metadata.ownerToken]

(* the records of id that exist anywhere: stored, read by a call in flight
   or about to be written by it *)
Known(store, handlers, id) ==
    Range(getRecord(store, id))
    \cup UNION {Range(handlers[p].seen) \cup Range(handlers[p].rec) :
                   p \in {q \in Procs : handlers[q].id = id}}

(* the record and blob keys of the documents other than id *)
KeysOfOthers(store, id) ==
    {key \in DOMAIN store :
        /\ key[1] \in {DOCUMENT_KEY_PREFIX, VERSION_KEY_PREFIX}
        /\ <<key[2]>> # id}

(* C23: updateDocument leaves the document's id, title, createdAt and owner
   token unchanged and leaves the records and version blobs of all other
   documents unchanged; so over any sequence of operations a document's
   owner token is the one fixed at creation: a public document never
   becomes owned and an owned one never changes owner or becomes public. *)
C23_UpdateKeepsIdentity ==
    [][/\ \A id \in DocIds :
             \A before \in Known(kv, pr, id), after \in Known(kv', pr', id) :
                 /\ before.id = id
                 /\ Identity(after) = Identity(before)
       /\ \A p \in Procs :
             (pr[p].op = "update" \/ pr'[p].op = "update") =>
                 LET id == IF pr[p].op = "update" THEN pr[p].id ELSE pr'[p].id
                 IN /\ KeysOfOthers(kv', id) = KeysOfOthers(kv, id)
                    /\ \A key \in KeysOfOthers(kv, id) : kv'[key] = kv[key]]_vars

(* an update at time 1 of a document of owner A created at time 0 has
   returned while another document is stored *)
C23_Witness ==
    /\ res.op = "update"
    /\ res.status = "OK"
    /\ getRecord(kv, res.id) # None
    /\ getRecord(kv, res.id)[1].createdAt = 0
    /\ getRecord(kv, res.id)[1].updatedAt = 1
    /\ getRecord(kv, res.id)[1].ownerToken = Some(TokenA)
    /\ \E other \in DocIds \ {res.id} :
          /\ getRecord(kv, other) # None
          /\ getRecord(kv, other)[1].ownerToken = None

---------------------------------------------------------------------------
(* the token of the caller, trimmed, is not the stored owner token, an
   absent one counting as empty *)
TokenDiffers(metadata, tokenArg) ==
    LET given == IF tokenArg = None THEN <<>> ELSE Trim(tokenArg[1])
        stored == IF metadata.ownerToken = None THEN <<>>
                  ELSE metadata.ownerToken[1]
    IN given # stored

(* C29: an updateDocument or deleteDocument call that fails with NOT_FOUND
   or FORBIDDEN performs no write: every record, version blob and index in
   the backing store is the same after the call as before it.  The call
   fails in the step in which it is made, and a call that goes on to its
   writes is one for an existing record and a token that does not differ. *)
C29_FailedCallWritesNothing ==
    [][/\ (/\ res' # res
           /\ res'.op \in {"update", "delete"}
           /\ res'.status \in {"NOT_FOUND", "FORBIDDEN"}) =>
              /\ kv' = kv
              /\ pr' = pr
       /\ \A p \in Procs :
             (pr[p].op = "idle" /\ pr'[p].op \in {"update", "delete"}) =>
                 /\ getRecord(kv, pr'[p].id) # None
                 /\ pr'[p].seen = getRecord(kv, pr'[p].id)
                 /\ ~TokenDiffers(pr'[p].seen[1], pr'[p].tokenArg)
                 /\ kv' = kv]_vars

(* a delete of a document of owner A with two versions has been rejected
   for token B, and the record is stored as the call read it *)
C29_Witness ==
    /\ res.op = "delete"
    /\ res.status = "FORBIDDEN"
    /\ res.tokenArg = Some(TokenB)
    /\ res.seen # None
    /\ res.seen[1].ownerToken = Some(TokenA)
    /\ Len(res.seen[1].versions) = 2
    /\ kv[DocKey(res.id)] = res.seen[1]

---------------------------------------------------------------------------
(* Concurrent calls on a store that holds one document already, with two
   contents and a clock that advances: the state after one createDocument
   has returned, then any updates and deletes by two handlers. *)

FirstId == Nanoid("d", 1)
FirstVersion == Nanoid("v", 1)

VarInputs ==
    [titles |-> {<<"a.md">>},
     contents |-> {<<>>, AtLimit},
     tokens |-> {None, Some(TokenA)},
     times |-> Times,
     ids |-> DocIds]

(* the store after createDocument(title, content, ownerToken) at time 0 *)
Created(title, content, ownerToken) ==
    LET versionMetadata == VersionMetadata(FirstVersion, 0, content)
        stored == [id |-> FirstId, title |-> title, createdAt |-> 0,
                   updatedAt |-> 0, size |-> ByteLength(content),
                   versions |-> <<versionMetadata>>,
                   ownerToken |-> ownerToken,
                   rawAccessKey |-> CreateRawKey(ownerToken, Nanoid("k", 1))]
        indexKey == IF Truthy(ownerToken) THEN ownerIndexKey(ownerToken[1])
                    ELSE PUBLIC_INDEX_KEY
    IN (DocKey(FirstId) :> stored)
       @@ (VersionKey(FirstId, FirstVersion) :> content)
       @@ (indexKey :> <<FirstId>>)
       @@ (IF Truthy(ownerToken) THEN (PUBLIC_INDEX_KEY :> <<>>) ELSE <<>>)

InitVar ==
    /\ \E title \in VarInputs.titles, content \in VarInputs.contents,
          tokenArg \in VarInputs.tokens :
          /\ kv = Created(title, content, NormalizeToken(tokenArg))
          /\ nKey = IF Truthy(NormalizeToken(tokenArg)) THEN 1 ELSE 0
    /\ pr = [p \in Procs |-> Idle]
    /\ res = NoResult
    /\ hist = {}
    /\ nDoc = 1
    /\ nVer = 1
    /\ nDel = 0

NextVar ==
    \/ Respond
    \/ \E p \in Procs :
          \/ \E id \in VarInputs.ids, content \in VarInputs.contents,
                tokenArg \in VarInputs.tokens, now \in VarInputs.times :
                UpdateCall(p, id, content, tokenArg, now)
          \/ \E id \in VarInputs.ids, tokenArg \in VarInputs.tokens :
                DeleteCall(p, id, tokenArg)
          \/ TaskStep(p)

SpecVar == InitVar /\ [][NextVar]_vars

---------------------------------------------------------------------------
(* C24: in every stored document record, under any interleaving of
   operations, size equals versions[0].size and updatedAt equals
   versions[0].createdAt: the record's size and update time always describe
   its latest listed version. *)
C24_RecordDescribesLatest ==
    \A id \in DocIds :
        LET record == getRecord(kv, id)
        IN record # None =>
              /\ record[1].versions # <<>>
              /\ record[1].size = record[1].versions[1].size
              /\ record[1].updatedAt = record[1].versions[1].createdAt

(* two updates that overlapped have both returned, and the stored record
   has another size and another time than when it was created *)
C24_Witness ==
    /\ AllIdle
    /\ \E e1, e2 \in hist :
          /\ e1.op = "update" /\ e2.op = "update"
          /\ e1.versionId # e2.versionId
          /\ e1.base = e2.base
    /\ getRecord(kv, FirstId) # None
    /\ LET metadata == getRecord(kv, FirstId)[1]
           first == metadata.versions[Len(metadata.versions)]
       IN /\ metadata.size # first.size
          /\ metadata.updatedAt # first.createdAt

---------------------------------------------------------------------------
(* Share tokens (auth.ts) and the routes of router.ts that list documents,
   issue a share token and redeem one.

   A JavaScript number is n + f / 600000 with f in 0..599999: whole
   milliseconds when it is a time, whole minutes when it is a duration, and
   the fraction fine enough that one tenth of a millisecond is a whole count
   of it in either unit. *)

Whole(n) == [n |-> n, f |-> 0]

NumLess(a, b) == a.n < b.n \/ (a.n = b.n /\ a.f < b.f)
NumMax(a, b) == IF NumLess(a, b) THEN b ELSE a
NumMin(a, b) == IF NumLess(b, a) THEN b ELSE a
NumAdd(a, b) ==
    [n |-> a.n + b.n + (a.f + b.f) \div 600000, f |-> (a.f + b.f) % 600000]

(* x * 60 * 1000 *)
TimesMsPerMinute(x) == [n |-> x.n * 60000 + x.f \div 10, f |-> (x.f % 10) * 60000]

(* the text JSON.stringify writes for a number: the digits of the whole part
   and, when it has a fraction of tenths, a point and the tenth *)
NumberToString(x) ==
    IF x.f = 0 THEN <<ToString(x.n)>>
    ELSE <<ToString(x.n), ".", ToString(x.f \div 60000)>>

(* JSON.stringify(payload) *)
JsonStringify(payload) ==
    <<"{\"documentId\":\"">> \o payload.documentId \o <<"\",\"expiresAt\":">>
        \o NumberToString(payload.expiresAt) \o <<"}">>

(* btoa, and atob which throws (None) on what is not base64 *)
Btoa(s) == <<"base64:">> \o s
Atob(t) == IF t # <<>> /\ Head(t) = "base64:" THEN Some(Tail(t)) ELSE None

(* sign: the hex digest of HMAC-SHA-256, a function of data and secret
   without collisions; its two halves *)
sign(data, secret) ==
    LET digest == "hmac(" \o ToString(data) \o "," \o secret \o ")"
    IN <<digest \o "[0]", digest \o "[1]">>

(* timingSafeEqual *)
timingSafeEqual(a, b) ==
    IF Len(a) # Len(b) THEN FALSE ELSE \A i \in 1..Len(a) : a[i] = b[i]

(* createShareToken *)
createShareToken(payload, secret) ==
    LET data == JsonStringify(payload)
    IN Btoa(data \o <<".">> \o sign(data, secret))

(* decoded.split(".") *)
RECURSIVE Split(_)
Split(s) ==
    IF \A i \in 1..Len(s) : s[i] # "." THEN <<s>>
    ELSE LET dot == CHOOSE i \in 1..Len(s) :
                        s[i] = "." /\ \A j \in 1..(i - 1) : s[j] # "."
         IN <<SubSeq(s, 1, dot - 1)>> \o Split(SubSeq(s, dot + 1, Len(s)))

---------------------------------------------------------------------------
(* Inputs of the routes *)

SHARE_SECRET == None
DefaultSecret == "default-secret"
OtherSecret == "other-secret"

(* c.env.SHARE_SECRET ?? "default-secret" *)
Secret == IF SHARE_SECRET = None THEN DefaultSecret ELSE SHARE_SECRET[1]

(* Date.now() *)
Clock == {Whole(t) : t \in Times}

(* body.expiresInMinutes: absent, integers around the two ends of the range,
   and 1.00001 *)
MinuteInputs ==
    {None} \cup {Some(Whole(m)) : m \in {-1, 0, 1, 2, 60, 10080, 10081}}
    \cup {Some([n |-> 1, f |-> 6])}

(* Math.min(Math.max(body.expiresInMinutes ?? 60, 1), 60 * 24 * 7) *)
ExpiresIn(expiresInMinutes) ==
    LET given == IF expiresInMinutes = None THEN Whole(60) ELSE expiresInMinutes[1]
    IN NumMin(NumMax(given, Whole(1)), Whole(60 * 24 * 7))

(* Date.now() + expiresIn * 60 * 1000 *)
ExpiresAt(now, expiresIn) == NumAdd(now, TimesMsPerMinute(expiresIn))

(* the times of expiry a payload may carry: those the share route computes,
   and two that are reached while the clock of the model runs *)
Expiries ==
    {ExpiresAt(now, ExpiresIn(m)) : now \in Clock, m \in MinuteInputs} \cup Clock

Payloads == [documentId : DocIds, expiresAt : Expiries]

(* JSON.parse of the texts JSON.stringify writes for a payload; it throws
   (None) on any other text *)
JsonParse(data) ==
    IF \E payload \in Payloads : JsonStringify(payload) = data
    THEN Some(CHOOSE payload \in Payloads : JsonStringify(payload) = data)
    ELSE None

(* verifyShareToken: the payload, or None; an exception of atob or
   JSON.parse is caught and gives None as well *)
verifyShareToken(token, secret, now) ==
    LET decoded == Atob(token)
    IN IF decoded = None THEN None
       ELSE LET parts == Split(decoded[1])
                data == parts[1]
                signature == IF Len(parts) >= 2 THEN parts[2] ELSE <<>>
            IN IF data = <<>> \/ signature = <<>> THEN None
               ELSE IF ~timingSafeEqual(signature, sign(data, secret)) THEN None
               ELSE LET payload == JsonParse(data)
                    IN IF payload = None THEN None
                       ELSE IF NumLess(payload[1].expiresAt, now) THEN None
                       ELSE payload

(* tokens of the payloads, signed with the secret of the deployment or with
   another one *)
SignedTokens(secret) == {createShareToken(payload, secret) : payload \in Payloads}

(* a token with a part changed after signing: the payload of another
   document or another expiry under the signature of the first, or the
   signature with a character changed, cut short or lengthened *)
AlteredTokens ==
    LET first == [documentId |-> FirstId, expiresAt |-> Whole(1)]
        data == JsonStringify(first)
        signature == sign(data, Secret)
    IN {Btoa(JsonStringify(other) \o <<".">> \o signature) :
           other \in {[first EXCEPT !.documentId = Nanoid("d", 2)],
                      [first EXCEPT !.expiresAt = Whole(60000)]}}
       \cup {Btoa(data \o <<".">> \o altered) :
                altered \in {<<signature[1], "00">>, <<signature[1]>>,
                             signature \o <<"00">>}}

(* strings that are no token: not base64, without a point, without data,
   without signature, and a signed text that is not JSON *)
MalformedTokens ==
    {<<"!">>, Btoa(<<"x">>), Btoa(<<".">> \o sign(<<>>, Secret)),
     Btoa(JsonStringify([documentId |-> FirstId, expiresAt |-> Whole(1)])
          \o <<".">>),
     Btoa(<<"x", ".">> \o sign(<<"x">>, Secret))}

QueryTokens ==
    {None, Some(<<>>)}
    \cup {Some(token) : token \in SignedTokens(Secret) \cup SignedTokens(OtherSecret)
                                  \cup AlteredTokens \cup MalformedTokens}

(* the limit parameter of the query: absent, or the text of an integer *)
LimitQueries == {None} \cup {Some(n) : n \in {-1, 0, 1, 2, 20, 50, 51}}

(* Math.min(Math.max(Number(query) || 50, 1), 50): the default is the upper
   end *)
ListLimitDefaultMax(query) ==
    LET n == IF query = None \/ query[1] = 0 THEN 50 ELSE query[1]
    IN Min(Max(n, 1), 50)

(* Math.min(Math.max(Number(c.req.query("limit")) || 20, 1), 50): Number of
   an absent parameter is NaN, and NaN and 0 are falsy *)
ListLimit(query) ==
    LET n == IF query = None \/ query[1] = 0 THEN 20 ELSE query[1]
    IN Min(Max(n, 1), 50)

(* the namespaces the routes are called on: for each of d1 and d2 either no
   record, or a record as createDocument writes it, public or owned by A or
   B, with its blob and its entry in the index *)
Owners ==
    UNION {[present -> {None, Some(TokenA), Some(TokenB)}] :
               present \in SUBSET DocIds}

IndexOfOwner(owners, ownerToken) ==
    SelectSeq([i \in 1..MaxDocs |-> Nanoid("d", MaxDocs + 1 - i)],
              LAMBDA id : id \in DOMAIN owners /\ owners[id] = ownerToken)

HttpNamespace(owners) ==
    LET keys == {PUBLIC_INDEX_KEY}
                \cup {ownerIndexKey(owners[id][1]) :
                         id \in {i \in DOMAIN owners : owners[i] # None}}
                \cup {DocKey(id) : id \in DOMAIN owners}
                \cup {VersionKey(id, ListedVersion) : id \in DOMAIN owners}
    IN [key \in keys |->
          IF key = PUBLIC_INDEX_KEY THEN IndexOfOwner(owners, None)
          ELSE IF \E id \in DOMAIN owners : key = DocKey(id)
          THEN LET id == CHOOSE i \in DOMAIN owners : key = DocKey(i)
               IN StoredRecord(id, owners[id])
          ELSE IF \E id \in DOMAIN owners : key = VersionKey(id, ListedVersion)
          THEN StoredContent
          ELSE LET token == CHOOSE t \in {TokenA, TokenB} : key = ownerIndexKey(t)
               IN IndexOfOwner(owners, Some(token))]

InitHttp ==
    /\ kv \in {HttpNamespace(owners) : owners \in Owners}
    /\ pr = [p \in Procs |-> Idle]
    /\ res = NoResult
    /\ hist = {}
    /\ nDoc = 0
    /\ nVer = 0
    /\ nKey = 0
    /\ nDel = 0

(* GET /api/documents *)
ListRequest(p, limitQuery, cursor, headerToken, scope) ==
    /\ Free(p)
    /\ LET limit == ListLimit(limitQuery)
           result == IF Truthy(headerToken) /\ scope = Some("mine")
                     THEN listOwnerDocuments(kv, headerToken, limit, cursor)
                     ELSE listPublicDocuments(kv, headerToken, limit, cursor)
       IN res' = [op |-> "list", status |-> "OK", tokenArg |-> headerToken,
                  limitQuery |-> limitQuery, limit |-> limit, scope |-> scope,
                  cursorArg |-> cursor, documents |-> result.documents,
                  cursor |-> result.cursor]
    /\ UNCHANGED <<kv, pr, hist, nDoc, nVer, nKey, nDel>>

(* POST /api/documents/:id/share; body is None for a request that is not
   JSON *)
ShareRequest(p, id, headerToken, body, now) ==
    /\ Free(p)
    /\ LET document == getDocument(kv, id, headerToken)
           failed(status) ==
               [op |-> "share", status |-> status, id |-> id,
                tokenArg |-> headerToken, body |-> body, now |-> now,
                expiresIn |-> None, token |-> None, shareUrl |-> None,
                expiresAt |-> None]
       IN IF document = None THEN res' = failed("NOT_FOUND")
          ELSE IF ~document[1].isOwner THEN res' = failed("FORBIDDEN")
          ELSE IF body = None THEN res' = failed("BAD_REQUEST")
          ELSE LET expiresIn == ExpiresIn(body[1].expiresInMinutes)
                   payload == [documentId |-> id,
                               expiresAt |-> ExpiresAt(now, expiresIn)]
                   token == createShareToken(payload, Secret)
               IN res' = [failed("OK") EXCEPT
                            !.expiresIn = Some(expiresIn),
                            !.token = Some(token),
                            !.shareUrl =
                                Some([id |-> id,
                                      versionId |-> document[1].versions[1].versionId,
                                      token |-> token]),
                            !.expiresAt = Some(payload.expiresAt)]
    /\ UNCHANGED <<kv, pr, hist, nDoc, nVer, nKey, nDel>>

(* GET /api/share without the test of isPrivate *)
RedeemResponseOfAny(store, payload) ==
    IF payload = None THEN [status |-> "BAD_REQUEST", view |-> None]
    ELSE LET document == getDocument(store, payload[1].documentId, None)
         IN IF document = None THEN [status |-> "NOT_FOUND", view |-> None]
            ELSE [status |-> "OK", view |-> document]

(* GET /api/share, after verifyShareToken *)
RedeemResponse(store, payload) ==
    IF payload = None THEN [status |-> "BAD_REQUEST", view |-> None]
    ELSE LET document == getDocument(store, payload[1].documentId, None)
         IN IF document = None THEN [status |-> "NOT_FOUND", view |-> None]
            ELSE IF document[1].isPrivate THEN [status |-> "FORBIDDEN", view |-> None]
            ELSE [status |-> "OK", view |-> document]

(* GET /api/share *)
RedeemRequest(p, token, now) ==
    /\ Free(p)
    /\ LET payload == IF ~Truthy(token) THEN None
                      ELSE verifyShareToken(token[1], Secret, now)
           response == RedeemResponse(kv, payload)
       IN res' = [op |-> "redeem", status |-> response.status, token |-> token,
                  now |-> now, payload |-> payload, view |-> response.view]
    /\ UNCHANGED <<kv, pr, hist, nDoc, nVer, nKey, nDel>>

Bodies == {None} \cup {Some([expiresInMinutes |-> m]) : m \in MinuteInputs}

NextHttp ==
    \/ Respond
    \/ \E limitQuery \in LimitQueries,
          cursor \in {None} \cup {Some(id) : id \in DocIds},
          headerToken \in HeaderTokens, scope \in {None, Some("mine")} :
          ListRequest(1, limitQuery, cursor, headerToken, scope)
    \/ \E id \in DocIds, headerToken \in HeaderTokens, body \in Bodies,
          now \in Clock : ShareRequest(1, id, headerToken, body, now)
    \/ \E token \in QueryTokens, now \in Clock : RedeemRequest(1, token, now)

SpecHttp == InitHttp /\ [][NextHttp]_vars

---------------------------------------------------------------------------
(* C25: verifyShareToken(createShareToken(p, s), s) returns p for every
   payload p whose expiresAt is not in the past; it returns absent, without
   raising, when expiresAt is in the past even though the signature is
   correct, when any part of the payload or signature was altered, when the
   token was signed with another secret, and when the input is malformed. *)
C25_ShareTokenRoundTrip ==
    (res.op = "redeem" /\ Truthy(res.token)) =>
        /\ \A payload \in Payloads :
              res.token[1] = createShareToken(payload, Secret) =>
                  res.payload = IF NumLess(payload.expiresAt, res.now)
                                THEN None ELSE Some(payload)
        /\ res.token[1] \in SignedTokens(OtherSecret) \cup AlteredTokens
                              \cup MalformedTokens => res.payload = None

---------------------------------------------------------------------------
(* C26: redeeming a share token returns the document view exactly when the
   token verifies, is unexpired, names an existing document and that
   document is public; a valid token naming a private document is rejected
   FORBIDDEN, one naming a missing document NOT_FOUND, and redeeming writes
   nothing to the store. *)
C26_RedeemPublicOnly ==
    [][(res' # res /\ res'.op = "redeem") =>
          LET payload == IF Truthy(res'.token)
                         THEN verifyShareToken(res'.token[1], Secret, res'.now)
                         ELSE None
              record == IF payload = None THEN None
                        ELSE getRecord(kv, payload[1].documentId)
          IN /\ kv' = kv
             /\ pr' = pr
             /\ res'.status = "OK" <=>
                    (payload # None /\ record # None /\ record[1].ownerToken = None)
             /\ res'.status = "OK" =>
                    /\ res'.view = Some(toView(record[1], None))
                    /\ \E signed \in Payloads :
                          /\ res'.token[1] = createShareToken(signed, Secret)
                          /\ ~NumLess(signed.expiresAt, res'.now)
                          /\ signed.documentId = res'.view[1].id
             /\ (payload # None /\ record # None /\ record[1].ownerToken # None)
                    => res'.status = "FORBIDDEN"
             /\ (payload # None /\ record = None) => res'.status = "NOT_FOUND"
             /\ payload = None => res'.status = "BAD_REQUEST"]_vars

(* a token that expires at this very millisecond has been redeemed for the
   view of a public document, in a store that holds a private one too *)
C26_Witness ==
    /\ res.op = "redeem"
    /\ res.status = "OK"
    /\ res.now = Whole(1)
    /\ res.payload[1].expiresAt = Whole(1)
    /\ res.view[1].id = res.payload[1].documentId
    /\ \E other \in DocIds :
          /\ getRecord(kv, other) # None
          /\ getRecord(kv, other)[1].ownerToken = Some(TokenA)

---------------------------------------------------------------------------
(* C27: in the HTTP delete operation the owner token is optional and the
   ownership rule is the same as for update: deleting an existing public
   document without a token succeeds and removes it, and deleting a missing
   document yields NOT_FOUND whether or not a token is sent.  As stated. *)
C27_DeleteTokenOptional ==
    [][\A id \in DocIds, headerToken \in HeaderTokens :
          DeleteRequest(1, id, headerToken) =>
              LET record == getRecord(kv, id)
              IN /\ record = None => res'.status = "NOT_FOUND"
                 /\ (/\ record # None
                     /\ record[1].ownerToken = None
                     /\ ~Truthy(headerToken)) =>
                        pr'[1].op = "delete"]_vars

(* C27 as amended: the HTTP delete operation requires a non-empty owner
   token: without one the request is rejected FORBIDDEN before the store is
   read, whether or not the document exists; with one, a missing document
   yields NOT_FOUND, a document whose stored owner token is not the token
   sent (a public document included) yields FORBIDDEN, and otherwise the
   delete proceeds; a rejected request writes nothing. *)
C27_DeleteRequiresToken ==
    [][\A id \in DocIds, headerToken \in HeaderTokens :
          DeleteRequest(1, id, headerToken) =>
              LET record == getRecord(kv, id)
                  rejected(status) ==
                      /\ res'.status = status
                      /\ kv' = kv
                      /\ pr' = pr
              IN IF headerToken = None \/ headerToken = Some(<<>>)
                 THEN rejected("FORBIDDEN")
                 ELSE IF record = None THEN rejected("NOT_FOUND")
                 ELSE IF record[1].ownerToken # headerToken
                 THEN rejected("FORBIDDEN")
                 ELSE /\ pr'[1].op = "delete"
                      /\ pr'[1].id = id
                      /\ res' = res]_vars

(* a DELETE without token for a stored public document has been rejected *)
C27_Witness ==
    /\ res.op = "deleteRequest"
    /\ res.status = "FORBIDDEN"
    /\ res.tokenArg = None
    /\ getRecord(kv, res.id) # None
    /\ getRecord(kv, res.id)[1].ownerToken = None

---------------------------------------------------------------------------
(* C28: for every integer limit sent to the HTTP list operation the limit
   passed to the store lies in 1..50 (20 when the parameter is absent or
   0), and for every integer expiry sent to share issuance the expiry used
   lies in 1..10080 minutes (60 when absent), with
   expiresAt = now + minutes * 60000. *)
C28_LimitAndExpiryClamped ==
    /\ res.op = "list" =>
          /\ res.limit \in 1..50
          /\ (res.limitQuery = None \/ res.limitQuery = Some(0)) => res.limit = 20
          /\ (res.limitQuery # None /\ res.limitQuery[1] \in 1..50) =>
                 res.limit = res.limitQuery[1]
          /\ (res.limitQuery # None /\ res.limitQuery[1] < 0) => res.limit = 1
          /\ (res.limitQuery # None /\ res.limitQuery[1] > 50) => res.limit = 50
          /\ Len(res.documents) <= res.limit
    /\ (/\ res.op = "share"
        /\ res.status = "OK"
        /\ (res.body[1].expiresInMinutes = None
            \/ res.body[1].expiresInMinutes[1].f = 0)) =>
          LET given == res.body[1].expiresInMinutes
              minutes == res.expiresIn[1]
          IN /\ minutes.f = 0
             /\ minutes.n \in 1..10080
             /\ given = None => minutes.n = 60
             /\ (given # None /\ given[1].n \in 1..10080) => minutes = given[1]
             /\ (given # None /\ given[1].n < 1) => minutes.n = 1
             /\ (given # None /\ given[1].n > 10080) => minutes.n = 10080
             /\ res.expiresAt = Some(Whole(res.now.n + minutes.n * 60000))

(* a share token has been issued at time 1 for a request of 10081 minutes *)
C28_Witness ==
    /\ res.op = "share"
    /\ res.status = "OK"
    /\ res.now = Whole(1)
    /\ res.body[1].expiresInMinutes = Some(Whole(10081))
    /\ res.expiresAt = Some(Whole(604800001))

---------------------------------------------------------------------------
NoDuplicates(index) ==
    \A i, j \in 1..Len(index) : i # j => index[i] # index[j]

(* the keys of the public index and of the owner indexes *)
IndexKeys(store) ==
    {key \in DOMAIN store :
        key = PUBLIC_INDEX_KEY \/ key[1] = OWNER_INDEX_PREFIX}

(* C30: in every reachable state, under every interleaving of create,
   update and delete (index writes being last-writer-wins), no index value
   written by the store contains the same document id twice. *)
C30_IndexWithoutDuplicates ==
    /\ \A key \in IndexKeys(kv) : NoDuplicates(kv[key])
    /\ \A p \in Procs :
          /\ pr[p].pubIdx # None => NoDuplicates(pr[p].pubIdx[1])
          /\ pr[p].ownIdx # None => NoDuplicates(pr[p].ownIdx[1])

(* an update has read a public index that holds its id already, and is
   about to write it back, while a create that has read the index as well
   is about to write its own *)
C30_Witness ==
    \E p, q \in Procs :
        /\ pr[p].op = "update"
        /\ "pubPut" \in pr[p].tasks
        /\ pr[p].id \in Range(pr[p].pubIdx[1])
        /\ pr[q].op = "create"
        /\ "pubPut" \in pr[q].tasks

---------------------------------------------------------------------------
(* the owner tokens a stored owner index can be keyed by *)
IndexedOwners(store) ==
    {SubSeq(key, 2, Len(key)) : key \in IndexKeys(store) \ {PUBLIC_INDEX_KEY}}

(* C31: in every reachable state, under every interleaving, each id in the
   public index that has a document record belongs to a document without
   owner, and each id in the index of owner T that has a record belongs to
   a document whose owner token is T; no document id is ever in both the
   public index and an owner index. *)
C31_IndexMatchesOwnership ==
    LET public == Range(getIndex(kv, PUBLIC_INDEX_KEY))
    IN /\ \A id \in public :
             getRecord(kv, id) # None => getRecord(kv, id)[1].ownerToken = None
       /\ \A token \in IndexedOwners(kv) :
             \A id \in Range(getIndex(kv, ownerIndexKey(token))) :
                 /\ getRecord(kv, id) # None =>
                        getRecord(kv, id)[1].ownerToken = Some(token)
                 /\ id \notin public

(* a public and a private document are stored and listed, each in its own
   index, while an update of the private one has read the public index and
   is about to write it back *)
C31_Witness ==
    \E p \in Procs, id \in DocIds, other \in DocIds :
        /\ pr[p].op = "update"
        /\ pr[p].id = id
        /\ "pubPut" \in pr[p].tasks
        /\ getRecord(kv, id) # None
        /\ getRecord(kv, id)[1].ownerToken = Some(TokenA)
        /\ id \in Range(getIndex(kv, ownerIndexKey(TokenA)))
        /\ getRecord(kv, other) # None
        /\ getRecord(kv, other)[1].ownerToken = None
        /\ other \in Range(getIndex(kv, PUBLIC_INDEX_KEY))

---------------------------------------------------------------------------
(* the calls that returned and were about document id *)
EventsOf(id) == {e \in hist : e.id = id}

(* C32: createDocument, updateDocument and deleteDocument on a private
   document do not disturb the public index: when one of them runs
   concurrently with a createDocument or updateDocument of a public
   document, the public document's id is in the public index once all
   operations have finished.  Only documents with an owner draw raw-access
   keys, so with nKey > 0 every call about another id than the public
   document's was a call on a private document. *)
C32_PrivateCallsKeepPublicIndex ==
    AllIdle =>
        \A id \in DocIds :
            ( /\ getRecord(kv, id) # None
              /\ getRecord(kv, id)[1].ownerToken = None
              /\ nDoc = 2
              /\ nKey > 0
              /\ \A e \in EventsOf(id) : e.op # "delete" )
            => id \in Range(getIndex(kv, PUBLIC_INDEX_KEY))

---------------------------------------------------------------------------
(* C33: whenever no operation is in flight, every versionId listed in an
   existing document record has its content blob stored under
   version:<id>:<versionId>, for every interleaving of createDocument,
   updateDocument and deleteDocument that led to that state. *)
C33_ListedVersionsHaveBlobs ==
    AllIdle =>
        \A id \in DocIds :
            getRecord(kv, id) # None =>
                \A i \in 1..Len(getRecord(kv, id)[1].versions) :
                    VersionKey(id, getRecord(kv, id)[1].versions[i].versionId)
                        \in DOMAIN kv

---------------------------------------------------------------------------
(* C34: for every content accepted by createDocument or updateDocument, the
   empty string included, a following getVersion with the returned document
   id and version id returns a version whose content equals the content
   that was saved and whose size equals its UTF-8 byte length (the document
   not having been deleted in between). *)
C34_SavedVersionIsReturned ==
    ( /\ res.op = "getVersion"
      /\ \E e \in EventsOf(res.id) :
             e.op \in {"create", "update"} /\ e.versionId = res.versionIdArg
      /\ \A e \in EventsOf(res.id) : e.op # "delete" )
    => /\ res.version # None
       /\ res.version[1].content = kv[VersionKey(res.id, res.versionIdArg)]
       /\ res.version[1].metadata.size = ByteLength(res.version[1].content)

---------------------------------------------------------------------------
(* Share tokens over a store that changes: documents are created, updated
   and deleted one call at a time, share tokens are issued, the client keeps
   some of them and redeems them later *)

ShareInputs ==
    [titles |-> {<<"a.md">>},
     contents |-> {AtLimit},
     tokens |-> {None, Some(TokenA), Some(TokenB)},
     times |-> {0},
     ids |-> DocIds]

(* the JSON bodies of the share requests: no JSON, {} and one minute *)
ShareBodies ==
    {None, Some([expiresInMinutes |-> None]),
     Some([expiresInMinutes |-> Some(Whole(1))])}

(* the client takes the response of POST /:id/share and keeps the token *)
KeepToken ==
    /\ res # NoResult
    /\ res.op = "share"
    /\ res.status = "OK"
    /\ hist' = hist \cup {[op |-> "share", id |-> res.id, token |-> res.token[1]]}
    /\ res' = NoResult
    /\ UNCHANGED <<kv, pr, nDoc, nVer, nKey, nDel>>

(* the tokens the issue operation handed out and the client kept *)
IssuedTokens == {e.token : e \in {h \in hist : h.op = "share"}}

(* tokens under the signature of the deployment that the issue operation
   did not hand out: one for each document id, not expired *)
MintedTokens ==
    {createShareToken([documentId |-> id, expiresAt |-> Whole(60000)], Secret) :
         id \in DocIds}

NextShare ==
    \/ Respond
    \/ KeepToken
    \/ Call(1, ShareInputs)
    \/ TaskStep(1)
    \/ \E id \in DocIds, headerToken \in HeaderTokens, body \in ShareBodies,
          now \in Clock : ShareRequest(1, id, headerToken, body, now)
    \/ \E token \in IssuedTokens \cup MintedTokens, now \in Clock :
          RedeemRequest(1, Some(token), now)

SpecShare == Init /\ [][NextShare]_vars

(* C35: share-token issuance succeeds only when the view has isOwner true,
   which holds only for documents with an owner, while redemption returns a
   view only for documents without owner; since ownership never changes, no
   token handed out by the issue operation is ever redeemed to a document
   view. *)
C35_IssuedTokenNeverRedeemed ==
    /\ (res # NoResult /\ res.op = "share" /\ res.status = "OK") =>
           /\ getRecord(kv, res.id) # None
           /\ Truthy(getRecord(kv, res.id)[1].ownerToken)
           /\ res.tokenArg = getRecord(kv, res.id)[1].ownerToken
    /\ (res # NoResult /\ res.op = "redeem") =>
           /\ res.view # None =>
                  /\ res.status = "OK"
                  /\ getRecord(kv, res.view[1].id) # None
                  /\ getRecord(kv, res.view[1].id)[1].ownerToken = None
           /\ res.token[1] \in IssuedTokens =>
                  res.status # "OK" /\ res.view = None

(* a token the issue operation handed out for a private document is
   presented to the redeem operation before it has expired, and refused *)
C35_Witness ==
    /\ res # NoResult
    /\ res.op = "redeem"
    /\ res.token[1] \in IssuedTokens
    /\ res.payload # None
    /\ res.status = "FORBIDDEN"

---------------------------------------------------------------------------
(* Paging through the public list while documents are written: a client
   asks for page after page with the cursor of the page before, and between
   two of its requests other documents are updated or deleted, one call at
   a time *)

(* the documents of the public list: all but the oldest, which is private *)
PublicIds == PageIds \ {FirstId}

(* the store after MaxIndex documents have been created, the first by owner
   A and the others without owner *)
InitPage ==
    /\ kv = Namespace(PUBLIC_INDEX_KEY,
                      SelectSeq(NewestFirst, LAMBDA id : id \in PublicIds),
                      [owners |-> [id \in PageIds |->
                                      IF id = FirstId THEN Some(TokenA) ELSE None],
                       missing |-> {}],
                      {ListedVersion})
               @@ (ownerIndexKey(TokenA) :> <<FirstId>>)
    /\ pr = [p \in Procs |-> Idle]
    /\ res = NoResult
    /\ hist = {}
    /\ nDoc = MaxIndex
    /\ nVer = 1
    /\ nKey = 1
    /\ nDel = 0

(* the pages the client has received so far *)
Pages == {e \in hist : e.op = "page"}

LastPage == CHOOSE e \in Pages : \A other \in Pages : other.n <= e.n

(* the traversal has begun and its last page came with a cursor *)
Traversing == Pages # {} /\ LastPage.cursor # None

(* GET /api/documents without cursor: the first page *)
PageFirst(limit) ==
    /\ Free(1)
    /\ Pages = {}
    /\ LET page == listPublicDocuments(kv, None, limit, None)
       IN hist' = hist \cup {[op |-> "page", n |-> 1, limit |-> limit,
                              documents |-> page.documents,
                              cursor |-> page.cursor]}
    /\ UNCHANGED <<kv, pr, res, nDoc, nVer, nKey, nDel>>

(* GET /api/documents with the cursor of the page before *)
PageFollow ==
    /\ Free(1)
    /\ Traversing
    /\ LET page == listPublicDocuments(kv, None, LastPage.limit, LastPage.cursor)
       IN hist' = hist \cup {[op |-> "page", n |-> LastPage.n + 1,
                              limit |-> LastPage.limit,
                              documents |-> page.documents,
                              cursor |-> page.cursor]}
    /\ UNCHANGED <<kv, pr, res, nDoc, nVer, nKey, nDel>>

NextPage ==
    \/ Respond
    \/ \E limit \in Limits : PageFirst(limit)
    \/ PageFollow
    \/ /\ Traversing
       /\ \E id \in PageIds, tokenArg \in {None, Some(TokenA)} :
              \/ UpdateCall(1, id, AtLimit, tokenArg, 1)
              \/ DeleteCall(1, id, tokenArg)
    \/ TaskStep(1)

SpecPage == InitPage /\ [][NextPage]_vars

(* the places of the traversal at which document id was returned: page
   number and position in the page *)
Returns(id) ==
    {at \in {e.n : e \in Pages} \X (1..MaxLimit) :
        \E e \in Pages : /\ e.n = at[1]
                         /\ at[2] <= Len(e.documents)
                         /\ e.documents[at[2]].id = id}

(* id was updated or deleted by a call that returned, or is being written
   by a call in flight *)
Touched(id) ==
    \/ \E e \in hist : e.op \in {"update", "delete"} /\ e.id = id
    \/ \E p \in Procs : pr[p].op # "idle" /\ pr[p].id = id

(* C36: while a client pages through listPublicDocuments with the returned
   cursors and other documents are updated or deleted between the page
   requests, every document that exists during the whole traversal and is
   itself not touched is returned exactly once: it is neither skipped nor
   returned on two pages. *)
C36_PagingReturnsOnce ==
    \A id \in PublicIds :
        ~Touched(id) =>
            /\ Cardinality(Returns(id)) <= 1
            /\ (Pages # {} /\ LastPage.cursor = None) =>
                   Cardinality(Returns(id)) = 1

---------------------------------------------------------------------------
(* The routes over a store whose documents can be told apart: every
   document has a title, a content, a version id and a raw-access key of
   its own, and the store changes under PUT and DELETE *)

(* what createDocument stored for the k-th document *)
WebTitle(k) == Nanoid("t", k)
WebContent(k) == <<65 + k>>
WebVersion(k) == Nanoid("w", k)
WebKey(k) == Nanoid("j", k)

WebRecord(k, ownerToken) ==
    [id |-> Nanoid("d", k), title |-> WebTitle(k), createdAt |-> 0,
     updatedAt |-> 0, size |-> ByteLength(WebContent(k)),
     versions |-> <<VersionMetadata(WebVersion(k), 0, WebContent(k))>>,
     ownerToken |-> ownerToken,
     rawAccessKey |-> CreateRawKey(ownerToken, WebKey(k))]

(* the namespace after the documents of owners have been created: records,
   blobs, and the public index and the owners' indexes, newest first *)
WebNamespace(owners) ==
    LET No(id) == CHOOSE k \in 1..MaxDocs : Nanoid("d", k) = id
        keys == {PUBLIC_INDEX_KEY}
                \cup {ownerIndexKey(owners[id][1]) :
                         id \in {i \in DOMAIN owners : owners[i] # None}}
                \cup {DocKey(id) : id \in DOMAIN owners}
                \cup {VersionKey(id, WebVersion(No(id))) : id \in DOMAIN owners}
    IN [key \in keys |->
          IF key = PUBLIC_INDEX_KEY THEN IndexOfOwner(owners, None)
          ELSE IF \E id \in DOMAIN owners : key = DocKey(id)
          THEN LET id == CHOOSE i \in DOMAIN owners : key = DocKey(i)
               IN WebRecord(No(id), owners[id])
          ELSE IF \E id \in DOMAIN owners : key = VersionKey(id, WebVersion(No(id)))
          THEN LET id == CHOOSE i \in DOMAIN owners :
                             key = VersionKey(i, WebVersion(No(i)))
               IN WebContent(No(id))
          ELSE LET token == CHOOSE t \in {TokenA, TokenB} : key = ownerIndexKey(t)
               IN IndexOfOwner(owners, Some(token))]

InitWeb ==
    /\ kv \in {WebNamespace(owners) : owners \in Owners}
    /\ pr = [p \in Procs |-> Idle]
    /\ res = NoResult
    /\ hist = {}
    /\ nDoc = MaxDocs
    /\ nVer = 0
    /\ nKey = 0
    /\ nDel = 0

(* GET /:id and GET /:id/version answering every viewer *)
HiddenFromNobody(document) == FALSE

(* if (!document.isOwner && document.isPrivate) throw forbidden(...) *)
Hidden(document) == ~document.isOwner /\ document.isPrivate

(* GET /api/documents/:id *)
GetResponse(store, id, headerToken) ==
    LET document == getDocument(store, id, headerToken)
    IN IF document = None THEN [status |-> "NOT_FOUND", view |-> None]
       ELSE IF Hidden(document[1]) THEN [status |-> "FORBIDDEN", view |-> None]
       ELSE [status |-> "OK", view |-> document]

GetRequest(p, id, headerToken) ==
    /\ Free(p)
    /\ LET r == GetResponse(kv, id, headerToken)
       IN res' = [op |-> "get", status |-> r.status, id |-> id,
                  tokenArg |-> headerToken, view |-> r.view]
    /\ UNCHANGED <<kv, pr, hist, nDoc, nVer, nKey, nDel>>

(* GET /api/documents/:id/version *)
VersionResponse(store, id, versionIdArg, headerToken) ==
    IF ~Truthy(versionIdArg) THEN [status |-> "BAD_REQUEST", version |-> None]
    ELSE LET document == getDocument(store, id, headerToken)
         IN IF document = None THEN [status |-> "NOT_FOUND", version |-> None]
            ELSE IF Hidden(document[1])
            THEN [status |-> "FORBIDDEN", version |-> None]
            ELSE LET version == getVersion(store, id, versionIdArg[1])
                 IN IF version = None
                    THEN [status |-> "NOT_FOUND", version |-> None]
                    ELSE [status |-> "OK", version |-> version]

VersionRequest(p, id, versionIdArg, headerToken) ==
    /\ Free(p)
    /\ LET r == VersionResponse(kv, id, versionIdArg, headerToken)
       IN res' = [op |-> "version", status |-> r.status, id |-> id,
                  tokenArg |-> headerToken, versionIdArg |-> versionIdArg,
                  version |-> r.version]
    /\ UNCHANGED <<kv, pr, hist, nDoc, nVer, nKey, nDel>>

(* PUT /api/documents/:id; body is None when content is not a string.  The
   errors of updateDocument become the responses 413, 404 and 403. *)
UpdateRequest(p, id, body, headerToken, now) ==
    IF body = None
    THEN Fail(p, "update", "BAD_REQUEST", id, headerToken, <<>>, None)
    ELSE UpdateCall(p, id, body[1], headerToken, now)

(* a text no request has sent before *)
FreshContent == <<48 + nVer>>

WebVersions == {WebVersion(k) : k \in 1..MaxDocs} \cup VersionIds
WebKeys == {WebKey(k) : k \in 1..MaxDocs} \cup RawKeys

NextWeb ==
    \/ Respond
    \/ \E id \in DocIds, headerToken \in HeaderTokens :
          \/ GetRequest(1, id, headerToken)
          \/ \E versionIdArg \in {None} \cup {Some(v) : v \in WebVersions} :
                VersionRequest(1, id, versionIdArg, headerToken)
          \/ \E versionIdArg \in {None} \cup {Some(v) : v \in WebVersions},
                rawKey \in {None} \cup {Some(k) : k \in WebKeys} :
                RawRequest(1, id, versionIdArg, rawKey, headerToken)
          \/ ShareRequest(1, id, headerToken, Some([expiresInMinutes |-> None]),
                          Whole(0))
          \/ \E body \in {None, Some(FreshContent)} :
                UpdateRequest(1, id, body, headerToken, 1)
          \/ DeleteRequest(1, id, headerToken)
    \/ \E headerToken \in HeaderTokens, scope \in {None, Some("mine")} :
          ListRequest(1, None, None, headerToken, scope)
    \/ \E token \in MintedTokens : RedeemRequest(1, Some(token), Whole(0))
    \/ TaskStep(1)

SpecWeb == InitWeb /\ [][NextWeb]_vars

(* what a response carries: document views, versions with their content,
   and the text of a raw response *)
ResponseViews(r) ==
    IF r.op \in {"get", "redeem", "update"}
    THEN (IF r.view = None THEN {} ELSE {r.view[1]})
    ELSE IF r.op = "list" THEN Range(r.documents)
    ELSE {}

ResponseVersions(r) ==
    IF r.op \in {"version", "update"} /\ r.version # None THEN {r.version[1]}
    ELSE {}

ResponseTexts(r) ==
    {v.content : v \in ResponseVersions(r)}
    \cup (IF r.op = "raw" /\ r.body # None THEN {r.body[1]} ELSE {})

(* the version ids a response names outside views and versions: the one in
   the share URL *)
ResponseVersionIds(r) ==
    IF r.op = "share" /\ r.shareUrl # None THEN {r.shareUrl[1].versionId} ELSE {}

(* the contents stored for the versions of a record *)
StoredTexts(store, metadata) ==
    {store[VersionKey(metadata.id, v.versionId)] :
         v \in {w \in Range(metadata.versions) :
                   VersionKey(metadata.id, w.versionId) \in DOMAIN store}}

(* the request presented neither the owner token of the record nor its
   current raw-access key; GET /api/share reads no header *)
Presented(r, metadata) ==
    \/ r.op # "redeem" /\ r.tokenArg = metadata.ownerToken
    \/ r.op = "raw" /\ r.rawKey = metadata.rawAccessKey

(* C37: over all HTTP operations (get, version, raw, list public, list
   mine, update, share issue, share redeem), no response to a requester who
   presented neither the owner token nor the current raw-access key of a
   private document contains that document's raw-access key, title, version
   list or content. *)
C37_PrivateDocumentNotDisclosed ==
    res # NoResult =>
        \A id \in DocIds :
            LET record == getRecord(kv, id)
            IN ( /\ record # None
                 /\ Truthy(record[1].ownerToken)
                 /\ ~Presented(res, record[1]) )
               => /\ \A view \in ResponseViews(res) :
                         /\ view.id # id
                         /\ view.title # record[1].title
                         /\ view.rawAccessKey # record[1].rawAccessKey
                         /\ Range(view.versions) \cap Range(record[1].versions) = {}
                  /\ \A version \in ResponseVersions(res) :
                         version.metadata \notin Range(record[1].versions)
                  /\ ResponseTexts(res) \cap StoredTexts(kv, record[1]) = {}
                  /\ \A versionId \in ResponseVersionIds(res) :
                         \A v \in Range(record[1].versions) : v.versionId # versionId

(* the version of a private document that has been updated by its owner A
   is asked for with the token B, and refused *)
C37_Witness ==
    /\ res # NoResult
    /\ res.op = "version"
    /\ res.tokenArg = Some(TokenB)
    /\ res.status = "FORBIDDEN"
    /\ getRecord(kv, res.id) # None
    /\ getRecord(kv, res.id)[1].ownerToken = Some(TokenA)
    /\ Len(getRecord(kv, res.id)[1].versions) = 2
    /\ res.versionIdArg = Some(getRecord(kv, res.id)[1].versions[1].versionId)

---------------------------------------------------------------------------
(* the ids listOwnerDocuments(t) lists, all pages taken together *)
ListedFor(store, tokenArg) ==
    {view.id : view \in Range(listOwnerDocuments(store, tokenArg, MaxDocs,
                                                 None).documents)}

(* C38: the store judges ownership the same way in every operation: for
   every document with an owner and every token string t (tokens with
   leading or trailing whitespace included), updateDocument and
   deleteDocument accept t as the owner's token if and only if
   getDocument(id, t) reports isOwner true and listOwnerDocuments(t) lists
   the document.  The record judged is the one the call read; the list is
   taken after an update, the document being gone after a delete. *)
C38_OwnershipJudgedAlike ==
    ( /\ res.op \in {"update", "delete"}
      /\ res.status \in {"OK", "FORBIDDEN"}
      /\ res.seen # None
      /\ Truthy(res.seen[1].ownerToken) )
    => ( res.status = "OK"
         <=> /\ toView(res.seen[1], res.tokenArg).isOwner
             /\ res.op = "update" => res.id \in ListedFor(kv, res.tokenArg) )

====
